---- MODULE Spec2Model ----
(***************************************************************************)
(* State-machine model of the sms_forwarder repository.                    *)
(*                                                                         *)
(*   Spec        the AT SMS engine of one SMSDeviceAT                      *)
(*               (read_all_sms, delete_sms_at, delete_all_read_sms)        *)
(*   SpecCall    the call monitor of one SMSDeviceAT (check_incoming_call) *)
(*   SpecGammu   the Gammu back-end SMSDevice (connect, read_sms,          *)
(*               delete_sms) with its deletion guard                       *)
(*   SpecThreads the threads of a run of SMSForwarderAT: the main thread   *)
(*               (start, periodic status update, stop) and one monitor     *)
(*               thread per device, with the shared store connection       *)
(*   SpecFwd     SMSForwarderAT.process_device_sms on one device, with the *)
(*               modem's phone-memory slots, the notification sink and the *)
(*               persistent store                                          *)
(*   SpecStop    SpecThreads with the steps of stop() taken fairly         *)
(*   SpecCancel  start, interrupt and stop() with every monitor thread     *)
(*               scheduled fairly                                          *)
(*   SpecSession the AT session of one SMSDeviceAT: the port, its input    *)
(*               buffer, send_command and the status queries               *)
(*   SpecParsers the queries and readers of one SMSDeviceAT applied to     *)
(*               whatever the port delivers                                *)
(*   SpecMarkers the call markers (RING, NO CARRIER) of the modem between  *)
(*               the SMS polls and the call checks of one SMSDeviceAT      *)
(*   SpecReadLoop SMSDevice.read_sms alone, on devices that answer without *)
(*               end                                                       *)
(*   SpecLegacy  SMSForwarder.process_device_sms on one Gammu device,      *)
(*               called again and again by poll_devices                    *)
(*                                                                         *)
(* Every operation is one action; the replies of the modem, which the code *)
(* cannot control, are the inputs the action draws with \E.                *)
(***************************************************************************)
EXTENDS Integers, Sequences, FiniteSets, TLC

\* ------------------------------------------------------------------ bounds
\* Highest storage index the modelled modem uses (indices are 0..MaxIndex).
MaxIndex == 1
\* Most lines in one reply to AT+CLCC.
MaxClccLines == 2
MaxBatch == 1        \* GetNextSMS results per folder in one read_sms
MaxErrors == 5       \* delete_sms is not called with more errors counted
PollInterval == 1    \* the configured poll_interval, in seconds
MaxBuffered == 1     \* lines the modem writes unasked between two commands
MaxReplyLines == 2   \* lines of a reply to one command

\* ------------------------------------------------------- program constants
\* sms_device_at.py:65  "if location < 0 or location > 1000"
MaxLocation == 1000
InvalidLocationLimit == 3    \* sms_device.py:274
GsmErrorLimit == 5           \* sms_device.py:325
AT_COMMANDS_AVAILABLE == TRUE

Indices == 0..MaxIndex
Banks == {"ME", "SM"}
\* The slots the modelled modem has in each bank: phone memory, where the
\* Air 780EPV stores SMS, has them all; the SIM bank has its first slot, which
\* is enough for two keys to differ in the bank alone.
BankIndices(memory) == IF memory = "ME" THEN Indices ELSE {0}
\* Locations a caller may hand to delete_sms_at: the valid ones and one on
\* each side of the sane range.
Locations == Indices \cup {0 - 1, MaxLocation + 1}

\* What the modem's reply to AT+CMGR is, as read_single_sms sees it:
\*   "text"    OK and a +CMGR: header, followed by text         -> dict, text
\*   "notext"  OK and a +CMGR: header, no text line             -> dict, ''
\*   "garbled" no OK, no header, a header the regex rejects, or
\*             text UCS2.decode raises on                       -> None
Replies == {"text", "notext", "garbled"}

VARIABLES
  \* ---- SMSDeviceAT (sms_device_at.py:20-26)
  processed_sms_ids,   \* set of sms_id
  \* ---- the last SMS operation performed on the device, with its inputs
  smsOp,
  \* ---- observers of one arbitrary key (chosen in Init, never changed)
  tracked,             \* the key observed
  emitsSinceDelete,    \* times tracked was returned by a poll since the last
                       \* delete_sms_at call (counted up to 2)
  trackedLife,         \* "fresh" | "emitted" | "retired" | "reemitted"
  retryPending,        \* the last single-read of tracked failed
  \* ---- SMSDeviceAT, call monitor (sms_device_at.py:25-26)
  active_call_number,  \* "None" or a caller number
  active_call_notified,
  \* ---- the last check_incoming_call, with its inputs
  callOp,
  \* ---- observers of the call events
  callEvents,          \* per number: events since NO CARRIER was last seen
                       \* (counted up to 2)
  lastEventNumber,     \* number of the last event since NO CARRIER was seen
  runCount,            \* events in a row for lastEventNumber (up to 2)
  \* ---- SMSForwarderAT (sms_forwarder_at.py:36-50)
  delete_after_forward,
  \* ---- the modem's phone memory: per index "empty" or "msg"
  store,
  \* ---- per index, what the sink answered for the message now in the slot:
  \*      "none" (never handed over) | "failed" | "delivered"
  sinkState,
  \* ---- the last process_device_sms: the sink, store and delete calls it
  \*      made, in order, and the failed messages its poll could read again
  fwdOp,
  \* ---- SMSDevice (sms_device.py:22-39)
  state_machine,          \* "None" | "object"
  legacy_processed_sms_ids,  \* SMSDevice.processed_sms_ids
  delete_errors,
  deletion_disabled,
  at_interface,           \* "None" | "object"
  use_at_for_deletion,
  \* ---- the last SMSDevice operation, its inputs, result and the
  \*      operations it issued on the device's transport
  gOp,
  \* ---- observer: a 'Deletion Disabled' notification was handed to the sink
  noticeSent,
  \* ---- a run of SMSForwarderAT (sms_forwarder_at.py:36-50, 316-393)
  running,             \* self.running
  mainPc,              \* where the main thread is
  statusAt,            \* the device connect_all_devices is at (status update)
  monPc,               \* per device, where its monitor thread is
  sms_check_counter,   \* per device, the local of monitor_device
  iteration,           \* per device, what the current loop iteration ran
  ser,                 \* per device, "closed" | "open"
  transportUse,        \* the last open or command on a device's transport
  monitor_threads,     \* self.monitor_threads: the device of each thread
  dbOpen,              \* the store connection is open
  dbIn,                \* the monitors between execute and commit of a write
  \* ---- the AT session of one SMSDeviceAT (sms_device_at.py:20-52)
  at_ser,              \* self.ser: "None" | "open" | "closed"
  in_buffer,           \* the lines waiting in the port's input buffer
  sessOp               \* the last operation on the session

smsVars == <<processed_sms_ids, smsOp, tracked, emitsSinceDelete, trackedLife,
             retryPending>>
callVars == <<active_call_number, active_call_notified, callOp, callEvents,
              lastEventNumber, runCount>>
fwdVars == <<delete_after_forward, store, sinkState, fwdOp>>
gammuVars == <<state_machine, legacy_processed_sms_ids, delete_errors,
               deletion_disabled, at_interface, use_at_for_deletion, gOp,
               noticeSent>>
threadVars == <<running, mainPc, statusAt, monPc, sms_check_counter,
                iteration, ser,
                transportUse, monitor_threads, dbOpen, dbIn>>
sessVars == <<at_ser, in_buffer, sessOp>>
vars == <<smsVars, callVars, fwdVars, gammuVars, threadVars, sessVars>>

\* ------------------------------------------------------------------ helpers
\* sms_id = f"{memory}_{index}": one string per (memory, index) pair.
SmsId(memory, index) == <<memory, index>>

Cmd(c, m, i) == [cmd |-> c, mem |-> m, idx |-> i]

Min(S) == CHOOSE x \in S : \A y \in S : x <= y

\* The indices of a listing in the order the modem prints them (ascending).
RECURSIVE Ascending(_)
Ascending(S) == IF S = {} THEN << >>
                ELSE <<Min(S)>> \o Ascending(S \ {Min(S)})

Range(s) == {s[j] : j \in 1..Len(s)}

\* ------------------------------------------------------ read_single_sms
\* Returns None (found = FALSE) or a dict whose text may be empty.
read_single_sms(index, reply) ==
  IF reply = "garbled" THEN [found |-> FALSE, text |-> FALSE, index |-> index]
  ELSE [found |-> TRUE, text |-> (reply = "text"), index |-> index]

\* The f-string of the logger.info call after messages.append(sms) reads
\* sms['from']; read_single_sms builds the dict with the keys index, number,
\* text, status, date, so the lookup raises KeyError.
LogReadRaises == TRUE

\* -------------------------------------------------------- read_all_sms
\* A mutant of MarkProcessed: the key is not added to the cache.
MarkProcessedSkips(proc, sms_id) == proc

\* "Add to processed set": self.processed_sms_ids.add(sms_id)
MarkProcessed(proc, sms_id) == proc \cup {sms_id}

\* Step 2 of read_all_sms: "for index in indices".  st carries
\* processed_sms_ids, messages and the single reads made (with the wire).
RECURSIVE ReadEach(_, _, _, _)
ReadEach(memory, indices, reply, st) ==
  IF indices = << >> THEN st
  ELSE
    LET index == Head(indices)
        sms_id == SmsId(memory, index)
    IN IF sms_id \in st.processed
       THEN ReadEach(memory, Tail(indices), reply, st)          \* continue
       ELSE
         LET sms == read_single_sms(index, reply[index])
             st1 == [st EXCEPT !.reads = Append(@, <<index, reply[index]>>),
                               !.wire = Append(@, Cmd("CMGR", memory, index))]
         IN IF sms.found /\ sms.text
            THEN LET st2 == [st1 EXCEPT !.processed = MarkProcessed(@, sms_id),
                                        !.messages = Append(@, sms_id)]
                 IN IF LogReadRaises
                    THEN [st2 EXCEPT !.raised = TRUE]   \* KeyError
                    ELSE ReadEach(memory, Tail(indices), reply, st2)
            ELSE ReadEach(memory, Tail(indices), reply, st1)

\* read_all_sms(memory): cmgfOK, cpmsOK say whether 'OK' is in the reply to
\* AT+CMGF=1 and AT+CPMS; listing is the set of indices parsed out of the
\* AT+CMGL reply; reply[i] is the modem's reply to AT+CMGR=i.
read_all_sms(proc, memory, cmgfOK, cpmsOK, listing, reply) ==
  LET st0 == [processed |-> proc, messages |-> << >>, reads |-> << >>,
              wire |-> <<Cmd("CMGF", "", 0)>>, raised |-> FALSE]
  IN IF ~cmgfOK THEN st0
     ELSE LET st1 == [st0 EXCEPT !.wire = Append(@, Cmd("CPMS", memory, 0))]
          IN IF ~cpmsOK THEN st1
             ELSE ReadEach(memory, Ascending(listing), reply,
                           [st1 EXCEPT !.wire = Append(@, Cmd("CMGL", "", 0))])

\* -------------------------------------------------------- delete_sms_at
\* A mutant of RetireKey: the key stays in the cache.
RetireKeyKeeps(proc, sms_id) == proc

\* "IMPORTANT: Remove from processed cache so new SMS at this index will be
\* read"
RetireKey(proc, sms_id) == IF sms_id \in proc THEN proc \ {sms_id} ELSE proc

\* A mutant of OutOfBound: every location is taken as sane.
OutOfBoundNever(location) == FALSE

\* "if location < 0 or location > 1000:" of delete_sms_at.
OutOfBound(location) == location < 0 \/ location > MaxLocation

\* A mutant of RetireWhen: the key is retired once AT+CMGD is written.
RetireWhenSent(cmgdOK) == TRUE

\* "if 'OK' in response:" after AT+CMGD, the branch that retires the key.
RetireWhen(cmgdOK) == cmgdOK

delete_sms_at(proc, location, memory, cpmsOK, cmgdOK) ==
  IF OutOfBound(location)
  THEN [processed |-> proc, result |-> FALSE, wire |-> << >>]
  ELSE IF ~cpmsOK
  THEN [processed |-> proc, result |-> FALSE,
        wire |-> <<Cmd("CPMS", memory, 0)>>]
  ELSE [processed |-> IF RetireWhen(cmgdOK)
                      THEN RetireKey(proc, SmsId(memory, location))
                      ELSE proc,
        result |-> cmgdOK,
        wire |-> <<Cmd("CPMS", memory, 0), Cmd("CMGD", memory, location)>>]

\* -------------------------------------------------- delete_all_read_sms
\* delete_all_read_sms(memory): AT+CPMS, then AT+CMGD=0,1 (delflag 1: every
\* read message of the bank); the cache is not touched.
delete_all_read_sms(proc, memory, cpmsOK, cmgdOK) ==
  IF ~cpmsOK
  THEN [processed |-> proc, result |-> FALSE,
        wire |-> <<Cmd("CPMS", memory, 0)>>]
  ELSE [processed |-> proc, result |-> cmgdOK,
        wire |-> <<Cmd("CPMS", memory, 0), Cmd("CMGD_READ", memory, 0)>>]

\* ------------------------------------------------------------ observers
Inc2(n) == IF n < 2 THEN n + 1 ELSE n

\* The reply to the single read of index i in a sequence of reads, or "none".
ReadReplyOf(reads, i) ==
  IF \E j \in 1..Len(reads) : reads[j][1] = i
  THEN reads[CHOOSE j \in 1..Len(reads) : reads[j][1] = i][2]
  ELSE "none"

\* The commands a poll writes before its per-index loop.
SetupOf(wire) == SubSeq(wire, 1, IF Len(wire) < 3 THEN Len(wire) ELSE 3)

\* smsOp: the operation, its arguments and result; for a poll, what it did
\* with the tracked key: tListed (the listing held it), tReply (the modem's
\* reply to its single read, had it been made), tRead (AT+CMGR was written
\* for it); wire: the commands written before the per-index loop (a poll) or
\* all the commands written (a delete); deleted: the keys of the slots the
\* modem deleted in answer to the operation.
NoOp == [name |-> "init", memory |-> "ME", location |-> 0, result |-> FALSE,
         ran |-> FALSE, messages |-> << >>, tListed |-> FALSE,
         tReply |-> "none", tRead |-> FALSE, wire |-> << >>, deleted |-> {}]

\* ------------------------------------------------------------------ Init
Keys == UNION {{SmsId(m, i) : i \in BankIndices(m)} : m \in Banks}

InitSms ==
  /\ processed_sms_ids = {}
  /\ smsOp = NoOp
  /\ tracked \in Keys
  /\ emitsSinceDelete = 0
  /\ trackedLife = "fresh"
  /\ retryPending = FALSE

\* --------------------------------------------------------------- actions
\* One read_all_sms(memory) call with the modem's replies as inputs.
PollWith(memory, cmgfOK, cpmsOK, listing, reply) ==
  LET r == read_all_sms(processed_sms_ids, memory, cmgfOK, cpmsOK,
                        listing, reply)
      ran == cmgfOK /\ cpmsOK
      n == Cardinality({j \in 1..Len(r.messages) : r.messages[j] = tracked})
      mine == ran /\ tracked[1] = memory /\ tracked[2] \in listing
      tr == IF tracked[1] = memory THEN ReadReplyOf(r.reads, tracked[2])
            ELSE "none"
  IN /\ processed_sms_ids' = r.processed
     /\ smsOp' = [NoOp EXCEPT !.name = "read_all_sms", !.memory = memory,
                              !.result = TRUE, !.ran = ran,
                              !.messages = r.messages,
                              !.tListed = mine,
                              !.tReply = IF mine THEN reply[tracked[2]]
                                         ELSE "none",
                              !.tRead = (tr # "none"),
                              !.wire = SetupOf(r.wire)]
     /\ emitsSinceDelete' = IF n = 0 THEN emitsSinceDelete
                            ELSE IF n = 1 THEN Inc2(emitsSinceDelete)
                            ELSE 2
     /\ trackedLife' = IF n = 0 THEN trackedLife
                       ELSE IF trackedLife = "fresh" THEN "emitted"
                       ELSE IF trackedLife = "retired" THEN "reemitted"
                       ELSE trackedLife
     /\ retryPending' = IF tr = "none" THEN retryPending ELSE tr # "text"
     /\ UNCHANGED tracked

ReadAllSms ==
  \E memory \in Banks :
    \/ \E cpmsOK \in BOOLEAN : PollWith(memory, FALSE, cpmsOK, {}, << >>)
    \/ PollWith(memory, TRUE, FALSE, {}, << >>)
    \/ \E listing \in SUBSET BankIndices(memory) :
         \E reply \in [listing -> Replies] :
           PollWith(memory, TRUE, TRUE, listing, reply)

DeleteSmsAt ==
  \E location \in Locations, memory \in Banks,
     cpmsOK \in BOOLEAN, cmgdOK \in BOOLEAN :
    LET r == delete_sms_at(processed_sms_ids, location, memory, cpmsOK, cmgdOK)
        hit == r.result /\ SmsId(memory, location) = tracked
    IN /\ processed_sms_ids' = r.processed
       /\ smsOp' = [NoOp EXCEPT !.name = "delete_sms_at", !.memory = memory,
                                !.location = location, !.result = r.result,
                                !.wire = r.wire,
                                !.deleted = IF r.result
                                            THEN {SmsId(memory, location)}
                                            ELSE {}]
       /\ emitsSinceDelete' = 0
       /\ trackedLife' = IF hit /\ trackedLife # "fresh" THEN "retired"
                         ELSE trackedLife
       /\ retryPending' = IF hit THEN FALSE ELSE retryPending
       /\ UNCHANGED tracked

\* One delete_all_read_sms(memory) call; readSlots: the slots of the bank
\* that held a read message, which the modem deletes when it answers OK.
DeleteAllReadSms ==
  \E memory \in Banks, cpmsOK \in BOOLEAN, cmgdOK \in BOOLEAN :
    \E readSlots \in SUBSET BankIndices(memory) :
      /\ cmgdOK => cpmsOK
      /\ ~cmgdOK => readSlots = {}
      /\ LET r == delete_all_read_sms(processed_sms_ids, memory, cpmsOK,
                                       cmgdOK)
         IN /\ processed_sms_ids' = r.processed
            /\ smsOp' = [NoOp EXCEPT !.name = "delete_all_read_sms",
                                     !.memory = memory,
                                     !.result = r.result, !.wire = r.wire,
                                     !.deleted = {SmsId(memory, i) :
                                                    i \in readSlots}]
      /\ UNCHANGED <<tracked, emitsSinceDelete, trackedLife, retryPending>>


\* ================================================================ calls
\* Caller numbers a +CLCC line may carry; NoNumber: the optional
\* ,"<number>",<type> group is absent (or the number is empty).
Numbers == {"A", "B"}
NoNumber == ""
\* A line of the reply to AT+CLCC: one the regex matches (with its <dir> and
\* number; call id, status and mode are copied into the event and decide
\* nothing) or any other line.
ClccLines ==
  {[kind |-> "junk", dir |-> 0, number |-> NoNumber]} \cup
  {[kind |-> "clcc", dir |-> d, number |-> n] :
     d \in {0, 1}, n \in Numbers \cup {NoNumber}}

SeqsUpTo(S, n) == UNION {[1..k -> S] : k \in 0..n}

\* number = match.group(6) if match.group(6) else 'Unknown'
NumberOf(line) == IF line.number = NoNumber THEN "Unknown" ELSE line.number

\* A mutant of IsDuplicateRing: no RING is a duplicate.
IsDuplicateRingNever(active, notified, number) == FALSE

\* "If this is the same call we already notified about, ignore"
IsDuplicateRing(active, notified, number) == active = number /\ notified

\* A mutant of IsIncoming: a record without a number is passed over.
IsIncomingWithNumber(line) ==
  line.kind = "clcc" /\ line.dir = 1 /\ line.number # NoNumber

\* A mutant of IsIncoming: the direction is not looked at.
IsIncomingAnyDirection(line) == line.kind = "clcc"

\* "if line.startswith('+CLCC:'): match = re.match(...); if match: ...
\* if direction == 1:"
IsIncoming(line) == line.kind = "clcc" /\ line.dir = 1

\* "for line in response.split('\n')": returns at the first incoming record.
RECURSIVE ScanClcc(_, _, _)
ScanClcc(lines, active, notified) ==
  IF lines = << >>
  THEN [number |-> active, notified |-> notified, event |-> "None"]
  ELSE LET line == Head(lines)
       IN IF IsIncoming(line)
          THEN IF IsDuplicateRing(active, notified, NumberOf(line))
               THEN [number |-> active, notified |-> notified,
                     event |-> "None"]
               ELSE [number |-> NumberOf(line), notified |-> TRUE,
                     event |-> NumberOf(line)]
          ELSE ScanClcc(Tail(lines), active, notified)

\* A mutant of CallEnded: NO CARRIER never ends the active call.
CallEndedNever(noCarrier, active) == FALSE

\* "if 'NO CARRIER' in data: if self.active_call_number:"
CallEnded(noCarrier, active) == noCarrier /\ active # "None"

\* A mutant of NotifiedAfterEnd: the end of a call leaves the flag as it is.
NotifiedKept(notified) == notified

\* "self.active_call_notified = False" next to the clearing of the number.
NotifiedAfterEnd(notified) == FALSE

\* check_incoming_call with an open port: inWaiting (ser.in_waiting > 0),
\* what the drained data holds (noCarrier, ring) and the lines of the reply
\* to AT+CLCC.
check_incoming_call(active, notified, inWaiting, noCarrier, ring, lines) ==
  IF ~inWaiting
  THEN [number |-> active, notified |-> notified, event |-> "None"]
  ELSE LET ended == CallEnded(noCarrier, active)
           a1 == IF ended THEN "None" ELSE active
           n1 == IF ended THEN NotifiedAfterEnd(notified) ELSE notified
       IN IF ring THEN ScanClcc(lines, a1, n1)
          ELSE [number |-> a1, notified |-> n1, event |-> "None"]

\* The number of the first incoming record of a reply ("None": no such
\* record), and the numbers its incoming records carry.
RECURSIVE FirstIncoming(_)
FirstIncoming(lines) ==
  IF lines = << >> THEN "None"
  ELSE IF Head(lines).kind = "clcc" /\ Head(lines).dir = 1
       THEN NumberOf(Head(lines))
       ELSE FirstIncoming(Tail(lines))

ReportedIncoming(lines) ==
  {lines[j].number : j \in {k \in 1..Len(lines) :
      lines[k].kind = "clcc" /\ lines[k].dir = 1 /\ lines[k].number # NoNumber}}

\* The numbers of the records of a reply whose direction is not incoming.
NotIncoming(lines) ==
  {NumberOf(lines[j]) : j \in {k \in 1..Len(lines) :
      lines[k].kind = "clcc" /\ lines[k].dir # 1}}

AllNumbers == Numbers \cup {"Unknown"}

NoCall == [name |-> "init", inWaiting |-> FALSE, noCarrier |-> FALSE,
           ring |-> FALSE, incoming |-> "None", reported |-> {},
           event |-> "None", endedNumber |-> "None", outgoing |-> {}]

InitCall ==
  /\ active_call_number = "None"
  /\ active_call_notified = FALSE
  /\ callOp = NoCall
  /\ callEvents = [n \in AllNumbers |-> 0]
  /\ lastEventNumber = "None"
  /\ runCount = 0

CheckWith(inWaiting, noCarrier, ring, lines) ==
  LET r == check_incoming_call(active_call_number, active_call_notified,
                               inWaiting, noCarrier, ring, lines)
      seenEnd == inWaiting /\ noCarrier
      ev0 == IF seenEnd THEN [n \in AllNumbers |-> 0] ELSE callEvents
      last0 == IF seenEnd THEN "None" ELSE lastEventNumber
      run0 == IF seenEnd THEN 0 ELSE runCount
      \* the caller whose call was seen to end and who has not rung since
      rungSince == callOp.ring /\ callOp.incoming # "None"
      ended0 == IF seenEnd /\ active_call_number # "None"
                THEN active_call_number
                ELSE IF rungSince THEN "None" ELSE callOp.endedNumber
  IN /\ active_call_number' = r.number
     /\ active_call_notified' = r.notified
     /\ callOp' = [name |-> "check_incoming_call", inWaiting |-> inWaiting,
                   noCarrier |-> seenEnd, ring |-> inWaiting /\ ring,
                   incoming |-> IF inWaiting /\ ring THEN FirstIncoming(lines)
                                ELSE "None",
                   reported |-> IF inWaiting /\ ring
                                THEN ReportedIncoming(lines) ELSE {},
                   event |-> r.event, endedNumber |-> ended0,
                   outgoing |-> IF inWaiting /\ ring
                                THEN NotIncoming(lines) ELSE {}]
     /\ callEvents' = IF r.event = "None" THEN ev0
                      ELSE [ev0 EXCEPT ![r.event] = Inc2(@)]
     /\ lastEventNumber' = IF r.event = "None" THEN last0 ELSE r.event
     /\ runCount' = IF r.event = "None" THEN run0
                    ELSE IF r.event = last0 THEN Inc2(run0) ELSE 1

\* check_incoming_call finds the buffer empty.
CheckNothingWaiting == CheckWith(FALSE, FALSE, FALSE, << >>)
\* check_incoming_call drains data without RING.
CheckNoRing == \E noCarrier \in BOOLEAN : CheckWith(TRUE, noCarrier, FALSE, << >>)
\* check_incoming_call drains data with RING and queries AT+CLCC.
CheckRing ==
  \E noCarrier \in BOOLEAN, lines \in SeqsUpTo(ClccLines, MaxClccLines) :
    CheckWith(TRUE, noCarrier, TRUE, lines)


\* ============================================================ forwarder
\* What the modem does with AT+CMGD=<index>,0 and what the code sees of it:
\* "ok" (deleted, OK read), "error" (not deleted, no OK), "lost" (deleted, but
\* the OK is not in the bytes read after the settle time).
CmgdOutcomes == {"ok", "error", "lost"}

\* A mutant of Delivered: the sink's answer is ignored.
DeliveredAlways(sinkOK) == TRUE

\* "if self.telegram.send_message(telegram_message):"
Delivered(sinkOK) == sinkOK

Ev(e, i, ok) == [ev |-> e, idx |-> i, ok |-> ok]

\* "for sms in messages" of process_device_sms.  out: the answers of the sink
\* (sinkOK) and of the modem to the delete (cpmsOK, cmgd); st: the device's
\* processed_sms_ids, the modem's slots, the sink observer and the calls made.
RECURSIVE ForwardEach(_, _, _, _)
ForwardEach(messages, daf, out, st) ==
  IF messages = << >> THEN st
  ELSE
    LET sms_id == Head(messages)
        idx == sms_id[2]
        st1 == [st EXCEPT !.log = Append(@, Ev("send", idx, out.sinkOK)),
                          !.sink[idx] = IF out.sinkOK THEN "delivered"
                                        ELSE "failed"]
    IN IF ~Delivered(out.sinkOK)
       THEN ForwardEach(Tail(messages), daf, out, st1)
       ELSE
         LET st2 == [st1 EXCEPT !.log = Append(@, Ev("log_sms", idx, TRUE))]
         IN IF ~daf
            THEN ForwardEach(Tail(messages), daf, out, st2)
            ELSE
              LET d == delete_sms_at(st2.processed, idx, sms_id[1],
                                     out.cpmsOK, out.cmgd = "ok")
                  gone == out.cpmsOK /\ out.cmgd \in {"ok", "lost"}
                  st3 == [st2 EXCEPT
                            !.processed = d.processed,
                            !.log = Append(@, Ev("delete", idx, d.result)),
                            !.store[idx] = IF gone THEN "empty" ELSE @,
                            !.sink[idx] = IF gone THEN "none" ELSE @]
              IN ForwardEach(Tail(messages), daf, out, st3)

NoFwd == [name |-> "init", log |-> << >>, retryable |-> {}]

InitFwd ==
  /\ delete_after_forward \in BOOLEAN
  /\ store = [i \in Indices |-> "empty"]
  /\ sinkState = [i \in Indices |-> "none"]
  /\ fwdOp = NoFwd

\* The modem stores a new SMS in a free slot of its phone memory.
Arrive ==
  \E i \in Indices :
    /\ store[i] = "empty"
    /\ store' = [store EXCEPT ![i] = "msg"]
    /\ sinkState' = [sinkState EXCEPT ![i] = "none"]
    /\ fwdOp' = [NoFwd EXCEPT !.name = "arrive"]
    /\ UNCHANGED <<delete_after_forward, processed_sms_ids>>

\* process_device_sms(device) with the replies as inputs: the poll's (the
\* listing holds stored messages, some lines may be lost), the sink's and the
\* modem's to the delete.
ProcessWith(cmgfOK, cpmsOK, listing, reply, out) ==
  LET r == read_all_sms(processed_sms_ids, "ME", cmgfOK, cpmsOK, listing, reply)
      f == ForwardEach(r.messages, delete_after_forward, out,
                       [processed |-> r.processed, store |-> store,
                        sink |-> sinkState, log |-> << >>])
  IN /\ processed_sms_ids' = f.processed
     /\ store' = f.store
     /\ sinkState' = f.sink
     /\ fwdOp' = [name |-> "process_device_sms", log |-> f.log,
                  retryable |-> {i \in listing : reply[i] = "text" /\
                                   sinkState[i] = "failed"}]
     /\ UNCHANGED delete_after_forward

\* The answers process_device_sms can ask for: the modem's answers to the
\* delete exist only after a successful delivery with delete_after_forward,
\* and the answer to AT+CMGD only after an OK to AT+CPMS.
Outs(daf) ==
  {o \in [sinkOK : BOOLEAN, cpmsOK : BOOLEAN, cmgd : CmgdOutcomes] :
     /\ o.cpmsOK => (o.sinkOK /\ daf)
     /\ ~o.cpmsOK => o.cmgd = "error"}
NoOut == [sinkOK |-> FALSE, cpmsOK |-> FALSE, cmgd |-> "error"]

ProcessDeviceSms ==
  \/ \E cpmsOK \in BOOLEAN : ProcessWith(FALSE, cpmsOK, {}, << >>, NoOut)
  \/ ProcessWith(TRUE, FALSE, {}, << >>, NoOut)
  \/ \E listing \in SUBSET {i \in Indices : store[i] = "msg"} :
       \E reply \in [listing -> Replies], out \in Outs(delete_after_forward) :
         ProcessWith(TRUE, TRUE, listing, reply, out)

\* ================================================================ Gammu
\* inbox_folders of read_sms; the SIM inbox is observed at locations 0 and 1,
\* the phone inbox at location 0.
InboxFolders == <<0, 2>>
GammuLocations(folder) == IF folder = 0 THEN {0, 1} ELSE {0}
GammuId(folder, location) == <<folder, location>>
ValidFolders == {0, 1, 2, 3}
\* The folders a delete request names: the two inboxes and an invalid one.
DeleteFolders == {0, 2, 4}

\* One GetNextSMS result: a single-part message at a location, with or
\* without both Number and Text; a corrupted location is MaxLocation + 1.
Entries(folder) ==
  [location : GammuLocations(folder), valid : BOOLEAN]
    \cup {[location |-> MaxLocation + 1, valid |-> TRUE]}

\* The results GetNextSMS gives for a folder before ERR_EMPTY (fewer than
\* max_attempts = 50): at most MaxBatch, and no more than the folder has
\* observed locations.
Batches(folder) ==
  UNION {[1..n -> Entries(folder)] :
           n \in 0..Min({MaxBatch, Cardinality(GammuLocations(folder))})}

\* A mutant of IsCorrupted: no location is taken as corrupted.
IsCorruptedNever(location) == FALSE

\* "if location < 0 or location > 1000:" of read_sms and delete_sms.
IsCorrupted(location) == location < 0 \/ location > MaxLocation

\* A mutant of ClearCache: the cache survives a corrupted location.
ClearCacheKeeps(processed) == processed

\* "self.processed_sms_ids.clear()" of read_sms.
ClearCache(processed) == {}

\* "max_attempts = 50  # Prevent infinite loops from corrupted data"
max_attempts == 50

\* A mutant of LoopGoesOn: the loop has no bound.
LoopUnbounded(read_attempts) == TRUE

\* "while read_attempts < max_attempts:"
LoopGoesOn(read_attempts) == read_attempts < max_attempts

\* The "while read_attempts < max_attempts" loop of read_sms on one folder:
\* batch is what the device gives to one GetNextSMS after the other before
\* it raises ERR_EMPTY, read_attempts the requests made so far.
\* st: [processed, disabled, messages, requests]; requests gets the number
\* of GetNextSMS requests the folder took.
RECURSIVE ReadLoop(_, _, _, _)
ReadLoop(folder, batch, st, read_attempts) ==
  IF ~LoopGoesOn(read_attempts)
  THEN [st EXCEPT !.requests = Append(@, read_attempts)]
  ELSE IF read_attempts + 1 \notin DOMAIN batch
  THEN [st EXCEPT !.requests = Append(@, read_attempts + 1)]
  ELSE
    LET m == batch[read_attempts + 1]
        sms_id == GammuId(folder, m.location)
        st1 == IF IsCorrupted(m.location)
               THEN [st EXCEPT !.processed = ClearCache(@), !.disabled = TRUE]
               ELSE IF sms_id \in st.processed THEN st
               ELSE IF ~m.valid THEN st
               ELSE [st EXCEPT !.messages = Append(@, sms_id),
                               !.processed = @ \cup {sms_id}]
    \* (the test has TLC evaluate st1 before the next iteration, not as one
    \* nested expression when the loop is over)
    IN IF st1.disabled \in BOOLEAN
       THEN ReadLoop(folder, batch, st1, read_attempts + 1)
       ELSE st1

\* "start = True; read_attempts = 0" and the loop, for one folder.
ReadFolder(folder, batch, st) == ReadLoop(folder, batch, st, 0)

\* A mutant of read_sms: a device with deletion disabled is not read.
read_sms_unless_disabled(sm, proc, disabled, statusOK, remaining, batches) ==
  LET st0 == [processed |-> proc, disabled |-> disabled, messages |-> << >>,
              requests |-> << >>]
  IN IF sm = "None" \/ ~statusOK \/ remaining = 0 \/ disabled THEN st0
     ELSE ReadFolder(InboxFolders[2], batches[2],
                     ReadFolder(InboxFolders[1], batches[1], st0))

\* read_sms(): statusOK is FALSE when GetSMSStatus raises, remaining is
\* SIMUsed + PhoneUsed, batches gives GetNextSMS's results per inbox folder.
read_sms(sm, proc, disabled, statusOK, remaining, batches) ==
  LET st0 == [processed |-> proc, disabled |-> disabled, messages |-> << >>,
              requests |-> << >>]
  IN IF sm = "None" \/ ~statusOK \/ remaining = 0 THEN st0
     ELSE ReadFolder(InboxFolders[2], batches[2],
                     ReadFolder(InboxFolders[1], batches[1], st0))

\* A mutant of DeletionGuard: the safety flag is not consulted.
DeletionGuardOff(disabled) == FALSE

\* "if self.deletion_disabled:" at the head of delete_sms.
DeletionGuard(disabled) == disabled

GammuOutcomes == {"ok", "gsmerror", "exception"}

\* delete_sms(location, folder).  st: the SMSDevice's fields; in: the
\* answers of the transport (atConnectOK, cpmsOK, cmgdOK, gammu).  Returns the
\* fields after the call, the result and the transport operations issued.
delete_sms(st, location, folder, in) ==
  LET Fail(st1, ops) == [st |-> st1, result |-> FALSE, transport |-> ops]
      Counted == [st EXCEPT !.delete_errors = @ + 1]
  IN
  IF DeletionGuard(st.deletion_disabled) THEN Fail(st, << >>)
  ELSE IF st.state_machine = "None" THEN Fail(Counted, << >>)
  ELSE IF IsCorrupted(location)
  THEN Fail([Counted EXCEPT !.deletion_disabled =
                 @ \/ Counted.delete_errors >= InvalidLocationLimit], << >>)
  ELSE IF folder \notin ValidFolders THEN Fail(Counted, << >>)
  ELSE
    LET memory == IF folder \in {2, 3} THEN "ME" ELSE "SM"
        tryAT == st.use_at_for_deletion /\ AT_COMMANDS_AVAILABLE
        opening == tryAT /\ st.at_interface = "None"
        stA == IF opening /\ ~in.atConnectOK
               THEN [st EXCEPT !.use_at_for_deletion = FALSE]
               ELSE IF opening THEN [st EXCEPT !.at_interface = "object"]
               ELSE st
        opsA == IF opening THEN << "at_connect" >> ELSE << >>
        useAT == tryAT /\ stA.at_interface = "object"
        d == delete_sms_at({}, location, memory, in.cpmsOK, in.cmgdOK)
        opsD == IF useAT THEN opsA \o [i \in 1..Len(d.wire) |-> "at_command"]
                ELSE opsA
    IN IF useAT /\ d.result
       THEN [st |-> [stA EXCEPT !.delete_errors = 0], result |-> TRUE,
             transport |-> opsD]
       ELSE
         LET ops == Append(opsD, "gammu_DeleteSMS")
             stE == [stA EXCEPT !.delete_errors = @ + 1]
         IN CASE in.gammu = "ok" ->
                   [st |-> [stA EXCEPT !.delete_errors = 0], result |-> TRUE,
                    transport |-> ops]
              [] in.gammu = "gsmerror" ->
                   Fail([stE EXCEPT !.deletion_disabled =
                            @ \/ stE.delete_errors >= GsmErrorLimit], ops)
              [] OTHER -> Fail(stE, ops)

\* The answers delete_sms can ask for: AT+CPMS is sent on an open AT
\* interface, AT+CMGD after an OK to AT+CPMS, and Gammu's DeleteSMS is
\* called unless the AT delete succeeded.
DeleteAnswers ==
  {in \in [atConnectOK : BOOLEAN, cpmsOK : BOOLEAN, cmgdOK : BOOLEAN,
           gammu : GammuOutcomes] :
     /\ in.cpmsOK => in.atConnectOK
     /\ in.cmgdOK => (in.cpmsOK /\ in.gammu = "ok")}

Fields == [state_machine |-> state_machine,
           delete_errors |-> delete_errors,
           deletion_disabled |-> deletion_disabled,
           at_interface |-> at_interface,
           use_at_for_deletion |-> use_at_for_deletion]

NoGammuOp == [name |-> "init", location |-> 0, folder |-> 0,
              result |-> FALSE, transport |-> << >>,
              disabledBefore |-> FALSE, messages |-> << >>,
              invalidSeen |-> FALSE, offered |-> {}, log |-> << >>,
              requests |-> << >>]

\* The sane bound of an index.
InBound(location) == location \in 0..MaxLocation

\* The messages a read that got as far as the folders was given with both
\* Number and Text, at a location in bound, whose key was not in the cache
\* when the read began.
Offered(statusOK, remaining, batches) ==
  IF state_machine = "None" \/ ~statusOK \/ remaining = 0 THEN {}
  ELSE {id \in UNION {{GammuId(InboxFolders[f], batches[f][j].location) :
                         j \in {k \in 1..Len(batches[f]) :
                                  /\ batches[f][k].valid
                                  /\ InBound(batches[f][k].location)}} :
                      f \in 1..Len(batches)} :
          id \notin legacy_processed_sms_ids}

\* read_sms got as far as the folders and met a location out of bound.
MetOutOfBound(statusOK, remaining, batches) ==
  /\ state_machine # "None" /\ statusOK /\ remaining # 0
  /\ \E f \in 1..Len(batches) :
       \E j \in 1..Len(batches[f]) : ~InBound(batches[f][j].location)

InitGammu ==
  /\ state_machine = "None"
  /\ legacy_processed_sms_ids = {}
  /\ delete_errors = 0
  /\ deletion_disabled = FALSE
  /\ at_interface = "None"
  /\ use_at_for_deletion = TRUE
  /\ gOp = NoGammuOp
  /\ noticeSent = FALSE

\* connect(): the StateMachine object is created before Init() is tried.
Connect ==
  /\ state_machine' = "object"
  /\ gOp' = [NoGammuOp EXCEPT !.name = "connect",
                              !.disabledBefore = deletion_disabled]
  /\ UNCHANGED <<legacy_processed_sms_ids, delete_errors, deletion_disabled,
                 at_interface, use_at_for_deletion, noticeSent>>

ReadWith(statusOK, remaining, batches) ==
  LET r == read_sms(state_machine, legacy_processed_sms_ids,
                    deletion_disabled, statusOK, remaining, batches)
  IN /\ legacy_processed_sms_ids' = r.processed
     /\ deletion_disabled' = r.disabled
     /\ gOp' = [NoGammuOp EXCEPT !.name = "read_sms",
                                 !.disabledBefore = deletion_disabled,
                                 !.messages = r.messages,
                                 !.invalidSeen =
                                    MetOutOfBound(statusOK, remaining, batches),
                                 !.offered =
                                    Offered(statusOK, remaining, batches),
                                 !.requests = r.requests]
     /\ UNCHANGED <<state_machine, delete_errors, at_interface,
                    use_at_for_deletion, noticeSent>>

\* A device that gives the same result to every GetNextSMS: more results
\* than the loop can ask for, all of them the message at location 0 or all
\* of them a corrupted location.
StuckEntries(folder) ==
  {e \in Entries(folder) : e.valid /\ e.location \in {0, MaxLocation + 1}}
StuckBatches ==
  [e \in StuckEntries(0) \cup StuckEntries(2) |->
     [j \in 1..(max_attempts + 1) |-> e]]
Stuck(e) == StuckBatches[e]

ReadSms ==
  \/ \E statusOK \in BOOLEAN :
       ReadWith(statusOK, 0, << << >>, << >> >>)
  \/ \E b0 \in Batches(0), b2 \in Batches(2) :
       ReadWith(TRUE, Len(b0) + Len(b2), << b0, b2 >>)

\* read_sms() on a device that is stuck in one folder.
ReadStuck ==
  \E f \in 1..Len(InboxFolders) :
    \E e \in StuckEntries(InboxFolders[f]) :
      ReadWith(TRUE, 1, [g \in 1..Len(InboxFolders) |->
                           IF g = f THEN Stuck(e) ELSE << >>])

DeleteSms ==
  /\ deletion_disabled \/ delete_errors < MaxErrors
  /\ \E location \in Locations, folder \in DeleteFolders,
        in \in DeleteAnswers :
       LET r == delete_sms(Fields, location, folder, in)
       IN /\ delete_errors' = r.st.delete_errors
          /\ deletion_disabled' = r.st.deletion_disabled
          /\ at_interface' = r.st.at_interface
          /\ use_at_for_deletion' = r.st.use_at_for_deletion
          /\ gOp' = [NoGammuOp EXCEPT !.name = "delete_sms",
                                      !.location = location,
                                      !.folder = folder,
                                      !.result = r.result,
                                      !.transport = r.transport,
                                      !.disabledBefore = deletion_disabled,
                                      !.invalidSeen = ~InBound(location)]
          /\ UNCHANGED <<state_machine, legacy_processed_sms_ids, noticeSent>>

\* ----------------------------------------- SMSForwarder (sms_forwarder.py)
LEv(e, ok, disabled) == [ev |-> e, ok |-> ok, disabled |-> disabled]

\* A mutant of TellOperator: the notification is sent for every failed
\* delete.
TellOperatorAlways(result, disabled) == ~result

\* "if not device.delete_sms(...): ... if device.deletion_disabled:" of
\* SMSForwarder.process_device_sms.
TellOperator(result, disabled) == ~result /\ disabled

\* "for sms in messages" of SMSForwarder.process_device_sms.  out: the
\* sink's answer and the transport's answers to the delete; st: the device's
\* fields and the calls made (send, delete, notice).
RECURSIVE LegacyForwardEach(_, _, _, _)
LegacyForwardEach(messages, daf, out, st) ==
  IF messages = << >> THEN st
  ELSE
    LET sms_id == Head(messages)
        st1 == [st EXCEPT !.log = Append(@, LEv("send", out.sinkOK,
                                                st.fields.deletion_disabled))]
    IN IF ~out.sinkOK \/ ~daf
       THEN LegacyForwardEach(Tail(messages), daf, out, st1)
       ELSE
         LET d == delete_sms(st1.fields, sms_id[2], sms_id[1], out.in)
             st2 == [st1 EXCEPT
                       !.fields = d.st,
                       !.log = Append(@, LEv("delete", d.result,
                                             d.st.deletion_disabled))]
             st3 == IF TellOperator(d.result, d.st.deletion_disabled)
                    THEN [st2 EXCEPT !.log = Append(@, LEv("notice", TRUE,
                                                           TRUE))]
                    ELSE st2
         IN LegacyForwardEach(Tail(messages), daf, out, st3)

\* SMSForwarder.process_device_sms(device), called by poll_devices for a
\* connected device: read_sms, then the loop over the messages it returned.
\* done: the messages dealt with before the 30-second alarm ended the call
\* (all of them when it did not ring); after the alarm the device is
\* disconnected and connected again.
LegacyProcessWith(statusOK, remaining, batches, out) ==
  LET r == read_sms(state_machine, legacy_processed_sms_ids,
                    deletion_disabled, statusOK, remaining, batches)
  IN \E done \in 0..Len(r.messages) :
       (~out.sinkOK => done = Len(r.messages)) /\
       LET f == LegacyForwardEach(
                  SubSeq(r.messages, 1, done), delete_after_forward, out,
                  [fields |-> [Fields EXCEPT !.deletion_disabled = r.disabled],
                   log |-> << >>])
       IN /\ legacy_processed_sms_ids' = r.processed
          /\ delete_errors' = f.fields.delete_errors
          /\ deletion_disabled' = f.fields.deletion_disabled
          /\ at_interface' = f.fields.at_interface
          /\ use_at_for_deletion' = f.fields.use_at_for_deletion
          /\ noticeSent' =
               (noticeSent \/ \E j \in 1..Len(f.log) : f.log[j].ev = "notice")
          /\ gOp' = [NoGammuOp EXCEPT
                       !.name = "process_device_sms",
                       !.disabledBefore = deletion_disabled,
                       !.invalidSeen =
                          MetOutOfBound(statusOK, remaining, batches),
                       !.log = f.log]
          /\ UNCHANGED state_machine

\* The answers process_device_sms can ask for: the sink's when a message
\* is offered, the transport's when a delete is requested.
NoAnswers == [atConnectOK |-> FALSE, cpmsOK |-> FALSE, cmgdOK |-> FALSE,
              gammu |-> "ok"]
LegacyOuts(offered, disabled) ==
  {o \in [sinkOK : BOOLEAN, in : DeleteAnswers] :
     /\ offered = {} => ~o.sinkOK
     /\ ~(o.sinkOK /\ delete_after_forward /\ ~disabled) => o.in = NoAnswers}

\* The GetNextSMS results of one poll: at most MaxBatch over both folders.
LegacyBatches ==
  {b \in Batches(0) \X Batches(2) : Len(b[1]) + Len(b[2]) <= MaxBatch}

LegacyProcessDeviceSms ==
  /\ state_machine # "None"
  /\ deletion_disabled \/ delete_errors + Len(InboxFolders) <= MaxErrors
  /\ \/ \E statusOK \in BOOLEAN :
          LegacyProcessWith(statusOK, 0, << << >>, << >> >>,
                            [sinkOK |-> FALSE, in |-> NoAnswers])
     \/ \E b \in LegacyBatches :
          \E out \in LegacyOuts(
                       Offered(TRUE, Len(b[1]) + Len(b[2]), b),
                       deletion_disabled
                         \/ MetOutOfBound(TRUE, Len(b[1]) + Len(b[2]), b)) :
            LegacyProcessWith(TRUE, Len(b[1]) + Len(b[2]), b, out)

\* ============================================================== threads
\* The configured devices, in the order of self.devices.
DeviceOrder == << "d1", "d2" >>
Devices == Range(DeviceOrder)

\* "if sms_check_counter >= (self.poll_interval * 10)"
PollTicks == PollInterval * 10

NoUse == [dev |-> "none", by |-> "none", op |-> "none", owned |-> FALSE,
          failed |-> FALSE, released |-> FALSE]

\* The monitor thread of d has been started and has not left its loop.
MonitorRunning(d) == monPc[d] \notin {"none", "exited"}

\* An open or a command on d's transport by a thread ("main" or "monitor"),
\* whether the open, write or read raised, and whether stop() had closed
\* the store and the ports before.
Use(d, thread, op, failed) ==
  [dev |-> d, by |-> thread, op |-> op, owned |-> MonitorRunning(d),
   failed |-> failed, released |-> ~dbOpen]

\* What a monitor thread's loop has run: checked and polled, whether the
\* iteration it is in (or has just ended) ran the call check and the SMS
\* poll; since, the iterations ended without an SMS poll after the last one
\* that had one.  A thread starts as if PollTicks - 1 such iterations had
\* ended: its first iteration is one with an SMS poll.
NoIteration == [checked |-> FALSE, polled |-> FALSE, since |-> PollTicks - 1]

InitThreads ==
  /\ running = FALSE
  /\ mainPc = "start"
  /\ statusAt = 0
  /\ monPc = [d \in Devices |-> "none"]
  /\ sms_check_counter = [d \in Devices |-> 0]
  /\ iteration = [d \in Devices |-> NoIteration]
  /\ ser = [d \in Devices |-> "closed"]
  /\ transportUse = NoUse
  /\ monitor_threads = << >>
  /\ dbOpen = TRUE
  /\ dbIn = {}

\* A mutant of SpawnMonitors: a thread for every configured device.
SpawnMonitorsAll(opened) == DeviceOrder

\* "for device in self.devices: if device.ser and device.ser.is_open:" of
\* start(): the devices a monitor thread is created for, in order.
SpawnMonitors(opened) == SelectSeq(DeviceOrder, LAMBDA d : opened[d])

\* start() up to the main loop: test_connection, connect_all_devices, the
\* startup notification, and one monitor thread per device whose port opened.
Start ==
  /\ mainPc = "start"
  /\ \E sinkOK \in BOOLEAN, opened \in [Devices -> BOOLEAN] :
       IF ~sinkOK
       THEN /\ mainPc' = "returned"
            /\ UNCHANGED <<running, monPc, ser, transportUse,
                           monitor_threads>>
       ELSE /\ ser' = [d \in Devices |-> IF opened[d] THEN "open" ELSE "closed"]
            /\ LET d == DeviceOrder[Len(DeviceOrder)] IN
                 transportUse' =
                   Use(d, "main", IF opened[d] THEN "command" ELSE "open",
                       ~opened[d])
            /\ IF \E d \in Devices : opened[d]
               THEN /\ running' = TRUE
                    /\ monitor_threads' = SpawnMonitors(opened)
                    /\ monPc' = [d \in Devices |->
                                   IF d \in Range(SpawnMonitors(opened))
                                   THEN "top" ELSE "none"]
                    /\ mainPc' = "loop"
               ELSE /\ mainPc' = "returned"
                    /\ UNCHANGED <<running, monPc, monitor_threads>>
  /\ UNCHANGED <<statusAt, sms_check_counter, iteration, dbOpen, dbIn>>

\* One pass of "while self.running" in start(): sleep, then a status update
\* when three hours have passed (due).
MainLoop ==
  /\ mainPc = "loop"
  /\ \E due \in BOOLEAN :
       IF ~running THEN mainPc' = "stop" /\ statusAt' = statusAt
       ELSE IF due THEN mainPc' = "status" /\ statusAt' = 1
       ELSE UNCHANGED <<mainPc, statusAt>>
  /\ UNCHANGED <<running, monPc, sms_check_counter, ser, transportUse,
                 dbOpen, dbIn>>
  /\ UNCHANGED <<monitor_threads, iteration>>

\* send_status_update -> connect_all_devices, one device of the for loop:
\* device.connect() opens the port again and, when that succeeds, the three
\* status commands are sent on it.
StatusDevice ==
  /\ mainPc = "status"
  /\ LET d == DeviceOrder[statusAt] IN
       \E opened \in BOOLEAN :
         /\ ser' = [ser EXCEPT ![d] = IF opened THEN "open" ELSE @]
         /\ transportUse' =
              Use(d, "main", IF opened THEN "command" ELSE "open", ~opened)
  /\ IF statusAt < Len(DeviceOrder)
     THEN statusAt' = statusAt + 1 /\ mainPc' = mainPc
     ELSE statusAt' = 0 /\ mainPc' = "loop"
  /\ UNCHANGED <<running, monPc, sms_check_counter, dbOpen, dbIn>>
  /\ UNCHANGED <<monitor_threads, iteration>>

\* KeyboardInterrupt in the main loop: "finally: self.stop()".
Interrupt ==
  /\ mainPc \in {"loop", "status"}
  /\ mainPc' = "stop"
  /\ statusAt' = 0
  /\ UNCHANGED <<running, monPc, sms_check_counter, ser, transportUse,
                 dbOpen, dbIn>>
  /\ UNCHANGED <<monitor_threads, iteration>>

\* A mutant of AfterStop: the store and the transports are released without
\* waiting for the monitor threads.
AfterStopNoJoin(pc) ==
  IF pc = "stop" THEN "release" ELSE "stopped"

\* The statements of stop() in their order: clear the flag ("stop"), join
\* the monitor threads ("join"), notify, close the store and the transports
\* ("release").
AfterStop(pc) ==
  CASE pc = "stop" -> "join"
    [] pc = "join" -> "release"
    [] OTHER -> "stopped"

\* stop(): "self.running = False".
StopBegin ==
  /\ mainPc = "stop"
  /\ running' = FALSE
  /\ mainPc' = AfterStop(mainPc)
  /\ UNCHANGED <<statusAt, monPc, sms_check_counter, ser, transportUse,
                 dbOpen, dbIn>>
  /\ UNCHANGED <<monitor_threads, iteration>>

\* stop(): thread.join(timeout=2) for every monitor thread; each join ends
\* when the thread has exited or when its two seconds are over.
StopJoin ==
  /\ mainPc = "join"
  /\ mainPc' = AfterStop(mainPc)
  /\ UNCHANGED <<running, statusAt, monPc, sms_check_counter, ser,
                 transportUse, dbOpen, dbIn>>
  /\ UNCHANGED <<monitor_threads, iteration>>

\* stop(): the shutdown notification, db.close(), disconnect_all_devices().
StopRelease ==
  /\ mainPc = "release"
  /\ dbOpen' = FALSE
  /\ ser' = [d \in Devices |-> "closed"]
  /\ mainPc' = AfterStop(mainPc)
  /\ UNCHANGED <<running, statusAt, monPc, sms_check_counter, transportUse,
                 dbIn>>
  /\ UNCHANGED <<monitor_threads, iteration>>

\* ---- monitor_device(device), one thread per device
mainFrame == <<running, mainPc, statusAt, monitor_threads>>

\* "while self.running:" and "if device.ser and device.ser.is_open:"; with
\* the port closed the thread sleeps five seconds and comes back here; when
\* the loop is left the function returns and its local is gone.
\* A mutant of LoopCondition: the loop is left whatever the flag says.
LoopConditionFalse(flag) == FALSE

\* "while self.running:"
LoopCondition(flag) == flag

\* A mutant of FirstStep: the iteration begins with the SMS poll.
FirstStepPoll(port) == IF port = "open" THEN "poll" ELSE "top"

\* "if device.ser and device.ser.is_open:" of monitor_device: on an open
\* port the iteration begins with the call check; with the port closed the
\* thread sleeps five seconds and comes back to the loop condition.
FirstStep(port) == IF port = "open" THEN "check" ELSE "top"

MonitorTop(d) ==
  /\ monPc[d] = "top"
  /\ monPc' = [monPc EXCEPT ![d] = IF ~LoopCondition(running) THEN "exited"
                                   ELSE FirstStep(ser[d])]
  /\ iteration' = [iteration EXCEPT ![d] =
                     IF ~LoopCondition(running) THEN NoIteration
                     ELSE IF ser[d] = "open"
                     THEN [@ EXCEPT !.checked = FALSE, !.polled = FALSE]
                     ELSE @]
  /\ sms_check_counter' =
       [sms_check_counter EXCEPT ![d] = IF ~LoopCondition(running) THEN 0
                                        ELSE @]
  /\ UNCHANGED <<mainFrame, ser, transportUse, dbOpen, dbIn>>

\* A mutant of OnTransportError: the error ends the monitor loop.
OnTransportErrorExit(next) == "exited"

\* "except Exception" of send_command and of check_incoming_call: the error
\* is logged, an empty response (or None) is returned, and the caller goes on.
OnTransportError(next) == next

\* What a command exchange of the monitor thread can end in: the transport
\* raised ("error"; the only outcome on a closed port), nothing to report
\* ("none"), a call or message the sink refused ("undelivered") or took
\* ("delivered").
Exchanges(d) ==
  IF ser[d] = "closed" THEN {"error"}
  ELSE {"error", "none", "undelivered", "delivered"}

\* check_incoming_call (it returns None on a port that is not open) and, for
\* a call, process_incoming_call up to its db.log_call (reached when the sink
\* took the notification).
MonitorCheckCall(d) ==
  /\ monPc[d] = "check"
  /\ IF ser[d] = "closed"
     THEN /\ monPc' = [monPc EXCEPT ![d] = "poll"]
          /\ UNCHANGED transportUse
     ELSE \E x \in Exchanges(d) :
            /\ transportUse' = Use(d, "monitor", "command", x = "error")
            /\ monPc' = [monPc EXCEPT ![d] =
                           CASE x = "delivered" -> "log_call"
                             [] x = "error" -> OnTransportError("poll")
                             [] OTHER -> "poll"]
  /\ iteration' = [iteration EXCEPT ![d].checked = TRUE]
  /\ UNCHANGED <<mainFrame, sms_check_counter, ser, dbOpen, dbIn>>

\* The end of a loop iteration: time.sleep(0.1) and the counter of the poll
\* schedule; the thread goes on at next.
\* A mutant of NextCounter: the counter is reset one iteration late.
NextCounterLate(counter) ==
  IF counter + 1 > PollTicks THEN 0 ELSE counter + 1

\* "sms_check_counter += 1; if sms_check_counter >= (self.poll_interval *
\* 10): sms_check_counter = 0"
NextCounter(counter) ==
  IF counter + 1 >= PollTicks THEN 0 ELSE counter + 1

EndIteration(d, next, polled) ==
  /\ sms_check_counter' =
       [sms_check_counter EXCEPT ![d] = NextCounter(@)]
  /\ iteration' =
       [iteration EXCEPT ![d] =
          [@ EXCEPT !.polled = polled,
                    !.since = IF polled THEN 0 ELSE Min({@ + 1, PollTicks})]]
  /\ monPc' = [monPc EXCEPT ![d] = next]

\* "if sms_check_counter == 0: self.process_device_sms(device)" up to its
\* db.log_sms (reached when a message was read and the sink took it), or to
\* the end of the iteration.
MonitorPoll(d) ==
  /\ monPc[d] = "poll"
  /\ IF sms_check_counter[d] = 0
     THEN \E x \in Exchanges(d) :
            /\ transportUse' = Use(d, "monitor", "command", x = "error")
            /\ IF x = "delivered"
               THEN /\ monPc' = [monPc EXCEPT ![d] = "log_sms"]
                    /\ iteration' = [iteration EXCEPT ![d].polled = TRUE]
                    /\ UNCHANGED sms_check_counter
               ELSE EndIteration(d, IF x = "error"
                                    THEN OnTransportError("top") ELSE "top",
                                 TRUE)
     ELSE /\ EndIteration(d, "top", FALSE)
          /\ UNCHANGED transportUse
  /\ UNCHANGED <<mainFrame, ser, dbOpen, dbIn>>

\* The pc after a store write that began at pc.
AfterWrite(pc) ==
  IF pc \in {"log_call", "commit_call"} THEN "poll" ELSE "delete"

\* log_sms / log_call: cursor.execute(INSERT ...) on the shared connection;
\* on a closed connection it raises and the write is given up.
DbExecute(d) ==
  /\ monPc[d] \in {"log_call", "log_sms"}
  /\ IF dbOpen
     THEN /\ dbIn' = dbIn \cup {d}
          /\ monPc' = [monPc EXCEPT ![d] = IF @ = "log_call" THEN "commit_call"
                                           ELSE "commit_sms"]
     ELSE /\ monPc' = [monPc EXCEPT ![d] = AfterWrite(@)]
          /\ UNCHANGED dbIn
  /\ UNCHANGED <<mainFrame, sms_check_counter, iteration, ser, transportUse,
                 dbOpen>>

\* log_sms / log_call: self.conn.commit().
DbCommit(d) ==
  /\ monPc[d] \in {"commit_call", "commit_sms"}
  /\ dbIn' = dbIn \ {d}
  /\ monPc' = [monPc EXCEPT ![d] = AfterWrite(@)]
  /\ UNCHANGED <<mainFrame, sms_check_counter, iteration, ser, transportUse,
                 dbOpen>>

\* process_device_sms after db.log_sms: "if self.delete_after_forward:
\* device.delete_sms_at(...)", and the end of the iteration.
MonitorDelete(d) ==
  /\ monPc[d] = "delete"
  /\ IF delete_after_forward
     THEN \E failed \in (IF ser[d] = "closed" THEN {TRUE} ELSE BOOLEAN) :
            /\ transportUse' = Use(d, "monitor", "command", failed)
            /\ EndIteration(d, IF failed THEN OnTransportError("top")
                               ELSE "top", iteration[d].polled)
     ELSE /\ EndIteration(d, "top", iteration[d].polled)
          /\ UNCHANGED transportUse
  /\ UNCHANGED <<mainFrame, ser, dbOpen, dbIn>>

\* =========================================================== AT session
\* A line of what the port delivers.  kind: "csq" (+CSQ:), "creg" (+CREG:),
\* "ok" (OK) or "text" (any other line: ERROR, RING, an echo, noise).  form:
\* for +CSQ: "full" (<rssi>,<ber>); for +CREG: "long"
\* (<n>,<stat>,"<lac>","<ci>",<act>), "short" (<n>,<stat>) or "cut" (<n>
\* alone).  stat is <rssi> for +CSQ.
Line(kind, form, stat, lac, ci, act) ==
  [kind |-> kind, form |-> form, stat |-> stat, lac |-> lac, ci |-> ci,
   act |-> act]
OkLine == Line("ok", "", 0, 0, 0, 0)
TextLine == Line("text", "", 0, 0, 0, 0)
\* The unsolicited result codes of a call: RING and NO CARRIER.
RingLine == Line("ring", "", 0, 0, 0, 0)
NoCarrierLine == Line("nocarrier", "", 0, 0, 0, 0)
Markers == {RingLine, NoCarrierLine}
\* The raw indicators observed: the end points and unknown of the GSM range
\* (0..31, 99), and the unknown of the extended range (100..191, 199).
RawIndicators == {0, 31, 99, 199}
CsqLines == {Line("csq", "full", r, 0, 0, 0) : r \in RawIndicators}
\* Registration lines: registered at home (1) with the cell "1A2B"/"3C4D",
\* written as 1 and 2, on LTE (7); roaming (5) in the short form; a cut line.
CregLines == {Line("creg", "long", 1, 1, 2, 7),
              Line("creg", "short", 5, 0, 0, 0),
              Line("creg", "cut", 0, 0, 0, 0)}

\* "self.ser.write(...); time.sleep(wait_time); self.ser.read(in_waiting)":
\* buffered is what waited in the input buffer when the command was written,
\* reply what the modem answers, inTime whether the answer is there when the
\* settle time is over, failed whether write or read raised.  Returns the
\* response, the buffer left, and how many lines of the response had waited
\* before the write.
send_command(port, buffered, reply, inTime, failed) ==
  IF port = "None" THEN [response |-> << >>, buffer |-> buffered, stale |-> 0]
  ELSE IF port = "closed" \/ failed
  THEN [response |-> << >>, buffer |-> buffered, stale |-> 0]
  ELSE IF inTime
  THEN [response |-> buffered \o reply, buffer |-> << >>,
        stale |-> Len(buffered)]
  ELSE [response |-> buffered, buffer |-> reply, stale |-> Len(buffered)]

\* sessOp: the operation, the response its parser was given, how many lines
\* of it had waited before the command was written, and what it returned:
\* found (not None) and the fields of the record, each {} for None.
\* raised: the call ended in an exception instead of a return.
\* For a delete: selected, whether the modem answered this AT+CPMS with OK,
\* and written, the commands that reached the port.  lost: the RING and
\* NO CARRIER lines a send_command of the operation read into a response.
NoSess == [name |-> "init", response |-> << >>, stale |-> 0,
           found |-> FALSE, pct |-> {}, stat |-> {}, lac |-> {}, ci |-> {},
           act |-> {}, raised |-> FALSE, selected |-> FALSE,
           written |-> << >>, lost |-> {}]

\* A mutant of Escapes: what is raised in the body leaves the function.
EscapesUncaught(raisedInBody) == raisedInBody

\* "try: ... except Exception as e: logger.error(...); return ...": the body
\* of each query and reader is inside one, so nothing it raises leaves.
Escapes(raisedInBody) == FALSE

\* r'\+CSQ:\s*(\d+),(\d+)'
MatchesCsq(line) == line.kind = "csq" /\ line.form = "full"
\* r'\+CREG:\s*(\d+),(\d+),"([^"]+)","([^"]+)",(\d+)'
MatchesCregLong(line) == line.kind = "creg" /\ line.form = "long"
\* r'\+CREG:\s*(\d+),(\d+)': also the head of a long line.
MatchesCregShort(line) ==
  line.kind = "creg" /\ line.form \in {"long", "short"}
\* r'\+CPMS: "' + memory + r'",(\d+),(\d+)'
MatchesCpms(line) == line.kind = "cpms" /\ line.form = "named"

\* Whether the named pattern matches a line.
Matches(pattern, line) ==
  CASE pattern = "csq" -> MatchesCsq(line)
    [] pattern = "creg_long" -> MatchesCregLong(line)
    [] pattern = "creg_short" -> MatchesCregShort(line)
    [] pattern = "cpms" -> MatchesCpms(line)

\* The first line of a response a pattern matches (re.search), 0 if none.
FirstMatch(response, pattern) ==
  IF \E j \in 1..Len(response) : Matches(pattern, response[j])
  THEN Min({j \in 1..Len(response) : Matches(pattern, response[j])})
  ELSE 0

\* A mutant of Percentage: the raw indicator is returned as it is.
PercentageRaw(rssi) == rssi

\* "percentage = int((rssi / 31.0) * 100)"
Percentage(rssi) == (rssi * 100) \div 31

\* The parser of get_signal_strength: {} for None.
ParseCsq(response) ==
  LET j == FirstMatch(response, "csq")
  IN IF j = 0 THEN {}
     ELSE IF response[j].stat = 99 THEN {}
     ELSE {Percentage(response[j].stat)}

NoReg == [found |-> FALSE, stat |-> {}, lac |-> {}, ci |-> {}, act |-> {}]

\* A mutant of ParseCreg: the simple format is tried first.
ParseCregShortFirst(response) ==
  LET k == FirstMatch(response, "creg_short")
  IN IF k # 0
     THEN [NoReg EXCEPT !.found = TRUE, !.stat = {response[k].stat}]
     ELSE NoReg

\* The parser of get_network_registration: the full format, else the simple
\* one, else None.
ParseCreg(response) ==
  LET j == FirstMatch(response, "creg_long")
      k == FirstMatch(response, "creg_short")
  IN IF j # 0
     THEN [found |-> TRUE, stat |-> {response[j].stat},
           lac |-> {response[j].lac}, ci |-> {response[j].ci},
           act |-> {response[j].act}]
     ELSE IF k # 0
     THEN [NoReg EXCEPT !.found = TRUE, !.stat = {response[k].stat}]
     ELSE NoReg

InitSession ==
  /\ at_ser = "None"
  /\ in_buffer = << >>
  /\ sessOp = NoSess

\* connect(): serial.Serial(...) opens the port, then the buffer is read and
\* dropped; when the open raises, self.ser keeps its value.
AtConnect ==
  \E opened \in BOOLEAN :
    /\ at_ser' = IF opened THEN "open" ELSE at_ser
    /\ in_buffer' = IF opened THEN << >> ELSE in_buffer
    /\ sessOp' = [NoSess EXCEPT !.name = "connect", !.found = opened]

\* close(): self.ser.close() when there is a port object.
AtClose ==
  /\ at_ser' = IF at_ser = "None" THEN "None" ELSE "closed"
  /\ in_buffer' = << >>
  /\ sessOp' = [NoSess EXCEPT !.name = "close"]

\* The modem writes a line nobody asked for (RING, a +CREG: or +CSQ: report)
\* while the port is open.
UnsolicitedLines == {TextLine, Line("csq", "full", 99, 0, 0, 0),
                     Line("creg", "short", 5, 0, 0, 0)}
Unsolicited ==
  /\ at_ser = "open"
  /\ Len(in_buffer) < MaxBuffered
  /\ \E line \in UnsolicitedLines : in_buffer' = Append(in_buffer, line)
  /\ sessOp' = [NoSess EXCEPT !.name = "unsolicited"]
  /\ UNCHANGED at_ser

\* The replies to a command: up to MaxReplyLines lines out of a set.
RepliesOf(lines) == UNION {[1..n -> lines] : n \in 0..MaxReplyLines}

\* One send_command(command) call whose response the caller only tests for
\* 'OK'.
SendCommand ==
  \E reply \in RepliesOf({OkLine, TextLine}),
     inTime \in BOOLEAN, failed \in BOOLEAN :
    LET r == send_command(at_ser, in_buffer, reply, inTime, failed)
    IN /\ failed => (reply = << >> /\ inTime)
       /\ in_buffer' = r.buffer
       /\ sessOp' = [NoSess EXCEPT !.name = "send_command",
                                   !.response = r.response,
                                   !.stale = r.stale,
                                   !.found = OkLine \in Range(r.response)]
       /\ UNCHANGED at_ser

\* get_signal_strength(): AT+CSQ and its parser.
GetSignalStrength ==
  \E reply \in RepliesOf(CsqLines), failed \in BOOLEAN :
    LET r == send_command(at_ser, in_buffer, reply, TRUE, failed)
        v == ParseCsq(r.response)
    IN /\ failed => reply = << >>
       /\ in_buffer' = r.buffer
       /\ sessOp' = [NoSess EXCEPT !.name = "get_signal_strength",
                                   !.response = r.response,
                                   !.stale = r.stale,
                                   !.found = (v # {}), !.pct = v]
       /\ UNCHANGED at_ser

\* get_network_registration(): AT+CREG=2, AT+CREG?, AT+CREG=0; the response
\* to the query is parsed.  in1: the OK to the first mode command is there
\* when its settle time is over.
GetNetworkRegistration ==
  \E reply \in RepliesOf(CregLines), in1 \in BOOLEAN :
    LET r1 == send_command(at_ser, in_buffer, << OkLine >>, in1, FALSE)
        r2 == send_command(at_ser, r1.buffer, reply, TRUE, FALSE)
        r3 == send_command(at_ser, r2.buffer, << OkLine >>, TRUE, FALSE)
        v == ParseCreg(r2.response)
    IN /\ in_buffer' = r3.buffer
       /\ sessOp' = [NoSess EXCEPT !.name = "get_network_registration",
                                   !.response = r2.response,
                                   !.stale = r2.stale,
                                   !.found = v.found, !.stat = v.stat,
                                   !.lac = v.lac, !.ci = v.ci, !.act = v.act]
       /\ UNCHANGED at_ser

\* +CPMS: lines: the answer to the query names the stores ('+CPMS:
\* "ME",2,10,...', form "named"), the answer to the set command does not
\* ('+CPMS: 2,10,...', form "bare"); stat is <used>, act is <total>.
CpmsLines == {Line("cpms", "named", 2, 0, 0, 10),
              Line("cpms", "bare", 2, 0, 0, 10)}

\* get_sms_count(memory): AT+CPMS="<memory>" and its parser; used in stat,
\* total in act.
GetSmsCount ==
  \E reply \in RepliesOf(CpmsLines \cup {OkLine}) :
    LET r == send_command(at_ser, in_buffer, reply, TRUE, FALSE)
        j == FirstMatch(r.response, "cpms")
    IN /\ in_buffer' = r.buffer
       /\ sessOp' = [NoSess EXCEPT !.name = "get_sms_count",
                                   !.response = r.response,
                                   !.stale = r.stale,
                                   !.found = (j # 0),
                                   !.stat = IF j = 0 THEN {}
                                            ELSE {r.response[j].stat},
                                   !.act = IF j = 0 THEN {}
                                           ELSE {r.response[j].act}]
       /\ UNCHANGED <<at_ser, processed_sms_ids, active_call_number,
                      active_call_notified>>

\* The commands of a reader drain the input buffer of an open port.
Drained == IF at_ser = "open" THEN << >> ELSE in_buffer

\* read_single_sms(index): decodeRaises says that UCS2.decode raised on the
\* sender or the text, which is one of the ways of a garbled reply.
ParseSingleSms ==
  \E index \in Indices, reply \in Replies, decodeRaises \in BOOLEAN :
    /\ decodeRaises => reply = "garbled"
    /\ at_ser # "open" => (reply = "garbled" /\ ~decodeRaises)
    /\ sessOp' = [NoSess EXCEPT !.name = "read_single_sms",
                                !.found = read_single_sms(index, reply).found,
                                !.raised = Escapes(decodeRaises)]
    /\ in_buffer' = Drained
    /\ UNCHANGED <<at_ser, processed_sms_ids, active_call_number,
                   active_call_notified>>

\* read_all_sms(memory) on the session: on a port that is not open every
\* response is empty, so the first command already fails.
\* The call markers among the lines a send_command reads from the buffer.
ReadAway(buffered) ==
  IF at_ser = "open" THEN Range(buffered) \cap Markers ELSE {}

PollSession ==
  \E memory \in Banks, cmgfOK \in BOOLEAN, cpmsOK \in BOOLEAN :
    \E listing \in SUBSET BankIndices(memory) :
      \E reply \in [listing -> Replies] :
        /\ at_ser # "open" => ~cmgfOK
        /\ ~cmgfOK => ~cpmsOK
        /\ ~cpmsOK => listing = {}
        /\ LET r == read_all_sms(processed_sms_ids, memory, cmgfOK, cpmsOK,
                                 listing, reply)
           IN /\ processed_sms_ids' = r.processed
              /\ sessOp' = [NoSess EXCEPT !.name = "read_all_sms",
                                          !.found = (r.messages # << >>),
                                          !.raised = Escapes(r.raised),
                                          !.lost = ReadAway(in_buffer)]
        /\ in_buffer' = Drained
        /\ UNCHANGED <<at_ser, active_call_number, active_call_notified>>

\* The lines of a reply to AT+CLCC by their grammar: no match, an incoming
\* record with a number, an incoming record without one.
GrammarClccLines ==
  {line \in ClccLines :
     line.kind = "junk" \/ (line.dir = 1 /\ line.number \in {"A", NoNumber})}

\* check_incoming_call() on the session: None at once unless the port is
\* open; the data waiting and the reply to AT+CLCC are inputs.
CheckCallSession ==
  \E inWaiting \in BOOLEAN, noCarrier \in BOOLEAN, ring \in BOOLEAN :
    \E lines \in SeqsUpTo(GrammarClccLines, MaxClccLines) :
      /\ at_ser # "open" => ~inWaiting
      /\ ~inWaiting => (~noCarrier /\ ~ring)
      /\ ~ring => lines = << >>
      /\ LET r == check_incoming_call(active_call_number,
                                       active_call_notified, inWaiting,
                                       noCarrier, ring, lines)
         IN /\ active_call_number' = r.number
            /\ active_call_notified' = r.notified
            /\ sessOp' = [NoSess EXCEPT !.name = "check_incoming_call",
                                        !.found = (r.event # "None")]
      /\ in_buffer' = Drained
      /\ UNCHANGED <<at_ser, processed_sms_ids>>

\* ======================================================= specifications
Init == InitSms /\ InitCall /\ InitFwd /\ InitGammu /\ InitThreads /\
        InitSession

\* A specification that does not use the tracked key, or the forwarder's
\* configuration, starts with one value of it.
PinTracked == tracked = SmsId("ME", 0)
PinForward == delete_after_forward

\* The SMS engine of one device.
notSms == <<callVars, fwdVars, gammuVars, threadVars, sessVars>>
Next == \/ ReadAllSms /\ UNCHANGED notSms
        \/ DeleteSmsAt /\ UNCHANGED notSms
        \/ DeleteAllReadSms /\ UNCHANGED notSms
InitEngine == Init /\ PinForward
Spec == InitEngine /\ [][Next]_vars

\* The call monitor of one device.
notCall == <<smsVars, fwdVars, gammuVars, threadVars, sessVars>>
NextCallOnly == \/ CheckNothingWaiting /\ UNCHANGED notCall
                \/ CheckNoRing /\ UNCHANGED notCall
                \/ CheckRing /\ UNCHANGED notCall
InitCallOnly == Init /\ PinTracked /\ PinForward
SpecCall == InitCallOnly /\ [][NextCallOnly]_vars


\* process_device_sms on one device and the arrival of messages.
notFwd == <<callVars, gammuVars, threadVars, smsOp, tracked, emitsSinceDelete,
            trackedLife, retryPending, sessVars>>
NextFwd == \/ Arrive /\ UNCHANGED notFwd
           \/ ProcessDeviceSms /\ UNCHANGED notFwd
InitFwdOnly == Init /\ PinTracked
SpecFwd == InitFwdOnly /\ [][NextFwd]_vars

\* The Gammu back-end of one device.
notGammu == <<smsVars, callVars, fwdVars, threadVars, sessVars>>
NextGammu == \/ Connect /\ UNCHANGED notGammu
             \/ ReadSms /\ UNCHANGED notGammu
             \/ DeleteSms /\ UNCHANGED notGammu
InitGammuOnly == Init /\ PinTracked /\ PinForward
SpecGammu == InitGammuOnly /\ [][NextGammu]_vars

\* read_sms again and again, on devices that answer and on stuck ones.
NextReadLoop == \/ Connect /\ UNCHANGED notGammu
                \/ ReadSms /\ UNCHANGED notGammu
                \/ ReadStuck /\ UNCHANGED notGammu
SpecReadLoop == InitGammuOnly /\ [][NextReadLoop]_vars

\* The Gammu forwarder on one device: poll_devices calls process_device_sms
\* again and again.
NextLegacy == \/ Connect /\ UNCHANGED notGammu
              \/ LegacyProcessDeviceSms /\ UNCHANGED notGammu
InitLegacy == Init /\ PinTracked /\ PinForward
SpecLegacy ==
  InitLegacy /\ [][NextLegacy]_vars /\
  WF_vars(LegacyProcessDeviceSms /\ UNCHANGED notGammu)

\* A run of SMSForwarderAT: the main thread and the monitor threads.
notThreads == <<smsOp, tracked, emitsSinceDelete, trackedLife, retryPending,
                processed_sms_ids, callVars, store, sinkState, fwdOp,
                gammuVars, delete_after_forward, sessVars>>
NextThreads ==
  \/ Start /\ UNCHANGED notThreads
  \/ MainLoop /\ UNCHANGED notThreads
  \/ StatusDevice /\ UNCHANGED notThreads
  \/ Interrupt /\ UNCHANGED notThreads
  \/ StopBegin /\ UNCHANGED notThreads
  \/ StopJoin /\ UNCHANGED notThreads
  \/ StopRelease /\ UNCHANGED notThreads
  \/ \E d \in Devices : MonitorTop(d) /\ UNCHANGED notThreads
  \/ \E d \in Devices : MonitorCheckCall(d) /\ UNCHANGED notThreads
  \/ \E d \in Devices : MonitorPoll(d) /\ UNCHANGED notThreads
  \/ \E d \in Devices : DbExecute(d) /\ UNCHANGED notThreads
  \/ \E d \in Devices : DbCommit(d) /\ UNCHANGED notThreads
  \/ \E d \in Devices : MonitorDelete(d) /\ UNCHANGED notThreads
InitThreadsOnly == Init /\ PinTracked
SpecThreads == InitThreadsOnly /\ [][NextThreads]_vars

\* The same run where the main thread keeps going inside stop(): join has a
\* timeout, the sink request has a timeout, and closing does not block.
\* Nothing is assumed of the monitor threads.
StopFairness ==
  WF_vars((StopBegin \/ StopJoin \/ StopRelease) /\ UNCHANGED notThreads)
\* Every blocking transport, sink and store call of a monitor thread returns:
\* a thread that can take its next step takes it.
\* (The pc of a thread enables one of its steps at a time.)
MonitorStep(d) ==
  \/ MonitorTop(d)
  \/ MonitorCheckCall(d)
  \/ MonitorPoll(d)
  \/ DbExecute(d)
  \/ DbCommit(d)
  \/ MonitorDelete(d)

MonitorFairness ==
  \A d \in Devices : WF_vars(MonitorStep(d) /\ UNCHANGED notThreads)

InitStop == Init /\ PinTracked /\ PinForward
SpecStop == InitStop /\ [][NextThreads]_vars /\ StopFairness
\* The run from start() to the end of stop() with the main thread asleep in
\* its loop until it is interrupted (the status update, which ends before
\* stop() begins, is part of SpecThreads and SpecStop).
NextCancel ==
  \/ Start /\ UNCHANGED notThreads
  \/ Interrupt /\ UNCHANGED notThreads
  \/ StopBegin /\ UNCHANGED notThreads
  \/ StopJoin /\ UNCHANGED notThreads
  \/ StopRelease /\ UNCHANGED notThreads
  \/ \E d \in Devices : MonitorTop(d) /\ UNCHANGED notThreads
  \/ \E d \in Devices : MonitorCheckCall(d) /\ UNCHANGED notThreads
  \/ \E d \in Devices : MonitorPoll(d) /\ UNCHANGED notThreads
  \/ \E d \in Devices : DbExecute(d) /\ UNCHANGED notThreads
  \/ \E d \in Devices : DbCommit(d) /\ UNCHANGED notThreads
  \/ \E d \in Devices : MonitorDelete(d) /\ UNCHANGED notThreads
SpecCancel ==
  InitStop /\ [][NextCancel]_vars /\ StopFairness /\ MonitorFairness

\* The AT session of one device: the port, its input buffer, the commands
\* and the status queries.
\* "'OK' in response"
HasOK(response) == OkLine \in Range(response)

\* What the modem answers to AT+CPMS or AT+CMGD within the settle time:
\* nothing, OK or ERROR.
Verdicts == {<< >>, <<OkLine>>, <<TextLine>>}
\* The target of delete_all_read_sms (delflag=1) among those of a delete.
AllRead == MaxLocation + 1

\* delete_sms_at(location, memory) and delete_all_read_sms(memory) over the
\* port: each of the two exchanges is a send_command whose response is
\* tested with 'OK' in response.  On a port that is not open send_command
\* returns "" and nothing is written.
DeleteSession ==
  \E memory \in Banks, cpms \in Verdicts, cmgd \in Verdicts :
    \E target \in BankIndices(memory) \cup {AllRead} :
      LET r1 == send_command(at_ser, in_buffer, cpms, TRUE, FALSE)
          cpmsOK == HasOK(r1.response)
          r2 == send_command(at_ser, r1.buffer, cmgd, TRUE, FALSE)
          cmgdOK == HasOK(r2.response)
          d == IF target = AllRead
               THEN delete_all_read_sms(processed_sms_ids, memory, cpmsOK,
                                        cmgdOK)
               ELSE delete_sms_at(processed_sms_ids, target, memory, cpmsOK,
                                  cmgdOK)
      IN /\ at_ser # "open" => cpms = << >>
         /\ (at_ser # "open" \/ Len(d.wire) < 2) => cmgd = << >>
         /\ processed_sms_ids' = d.processed
         /\ in_buffer' = IF Len(d.wire) = 2 THEN r2.buffer ELSE r1.buffer
         /\ sessOp' = [NoSess EXCEPT
               !.name = "delete",
               !.response = r1.response,
               !.stale = r1.stale,
               !.found = d.result,
               !.selected = (at_ser = "open" /\ HasOK(cpms)),
               !.written = IF at_ser = "open" THEN d.wire ELSE << >>]
         /\ UNCHANGED <<at_ser, active_call_number, active_call_notified>>

notSession == <<smsVars, callVars, fwdVars, gammuVars, threadVars>>
\* The queries and readers of one device applied to what the port delivers.
notParsers == <<smsOp, tracked, emitsSinceDelete, trackedLife, retryPending,
                callOp, callEvents, lastEventNumber, runCount, fwdVars,
                gammuVars, threadVars>>
NextSession ==
  \/ AtConnect /\ UNCHANGED notSession
  \/ AtClose /\ UNCHANGED notSession
  \/ Unsolicited /\ UNCHANGED notSession
  \/ SendCommand /\ UNCHANGED notSession
  \/ GetSignalStrength /\ UNCHANGED notSession
  \/ GetNetworkRegistration /\ UNCHANGED notSession
  \/ DeleteSession /\ UNCHANGED notParsers
InitSessionOnly == Init /\ PinTracked /\ PinForward
SpecSession == InitSessionOnly /\ [][NextSession]_vars

NextParsers ==
  \/ AtConnect /\ UNCHANGED <<notSession>>
  \/ GetSignalStrength /\ UNCHANGED <<notSession>>
  \/ GetNetworkRegistration /\ UNCHANGED <<notSession>>
  \/ GetSmsCount /\ UNCHANGED notParsers
  \/ ParseSingleSms /\ UNCHANGED notParsers
  \/ PollSession /\ UNCHANGED notParsers
  \/ CheckCallSession /\ UNCHANGED notParsers
InitParsers == Init /\ PinTracked /\ PinForward
SpecParsers == InitParsers /\ [][NextParsers]_vars

\* The modem writes RING or NO CARRIER while the port is open.
Marker ==
  /\ at_ser = "open"
  /\ Len(in_buffer) < MaxBuffered
  /\ \E m \in Markers : in_buffer' = Append(in_buffer, m)
  /\ sessOp' = [NoSess EXCEPT !.name = "marker"]
  /\ UNCHANGED <<at_ser, processed_sms_ids, active_call_number,
                 active_call_notified>>

\* What the modem may write during the settle time of AT+CLCC.
DuringClcc == {<< >>, <<RingLine>>, <<NoCarrierLine>>}

\* check_incoming_call() on the stream: the data waiting is read and
\* searched for 'NO CARRIER' and 'RING'; after a RING, send_command('AT+CLCC')
\* reads the reply together with what the modem wrote meanwhile, and only
\* the +CLCC: lines of that response are looked at.
CheckCallStream ==
  \E lines \in SeqsUpTo(GrammarClccLines, MaxClccLines),
     during \in DuringClcc :
    LET data == IF at_ser = "open" THEN in_buffer ELSE << >>
        inWaiting == data # << >>
        noCarrier == NoCarrierLine \in Range(data)
        ring == RingLine \in Range(data)
        r == check_incoming_call(active_call_number, active_call_notified,
                                 inWaiting, noCarrier, ring, lines)
        asked == send_command(at_ser, << >>, during, TRUE, FALSE)
    IN /\ ~ring => (lines = << >> /\ during = << >>)
       /\ active_call_number' = r.number
       /\ active_call_notified' = r.notified
       /\ in_buffer' = Drained
       /\ sessOp' = [NoSess EXCEPT
             !.name = "check_incoming_call",
             !.found = (r.event # "None"),
             !.lost = IF ring THEN ReadAway(asked.response) ELSE {}]
       /\ UNCHANGED <<at_ser, processed_sms_ids>>

\* The call markers of the modem between the SMS polls and the call checks
\* of monitor_device.
NextMarkers ==
  \/ AtConnect /\ UNCHANGED <<notSession>>
  \/ Marker /\ UNCHANGED notParsers
  \/ PollSession /\ UNCHANGED notParsers
  \/ CheckCallStream /\ UNCHANGED notParsers
InitMarkers == Init /\ PinTracked /\ PinForward
SpecMarkers == InitMarkers /\ [][NextMarkers]_vars

\* ------------------------------------------------------------------ claims
\* C1 (dedup idempotence): over any sequence of read_all_sms polls with no
\* delete_sms_at call between them, whatever the modem replies, a key is
\* returned at most once in total.  emitsSinceDelete counts the returns of the
\* (arbitrary) tracked key since the last delete_sms_at call.
C1_DedupIdempotence == emitsSinceDelete <= 1

\* The key was returned once, and a later poll that listed it with a readable
\* reply did not return it again.
C1_Witness ==
  /\ emitsSinceDelete = 1
  /\ smsOp.name = "read_all_sms" /\ smsOp.tListed /\ smsOp.tReply = "text"
  /\ tracked \notin Range(smsOp.messages)

C6_FailedReadRetried ==
  [][ (smsOp'.name = "read_all_sms") =>
        /\ (smsOp'.tRead /\ smsOp'.tReply # "text")
             => /\ tracked \notin Range(smsOp'.messages)
                /\ tracked \notin processed_sms_ids'
        /\ (smsOp'.tRead /\ smsOp'.tReply = "text")
             => tracked \in Range(smsOp'.messages)
        /\ (retryPending /\ smsOp'.tListed) => smsOp'.tRead
    ]_vars

\* Parts (a) and (b) of C6 alone, which the code satisfies.
C6_FailedReadNotMarked ==
  [][ (smsOp'.name = "read_all_sms") =>
        /\ (smsOp'.tRead /\ smsOp'.tReply # "text")
             => /\ tracked \notin Range(smsOp'.messages)
                /\ tracked \notin processed_sms_ids'
        /\ (smsOp'.tRead /\ smsOp'.tReply = "text")
             => tracked \in Range(smsOp'.messages)
    ]_vars

\* A RING whose call query named an incoming caller, with no NO CARRIER in
\* the data drained with it.
RingStep(op) ==
  op.name = "check_incoming_call" /\ op.ring /\ ~op.noCarrier /\
  op.incoming # "None"

\* C4 (call debounce, same caller), as amended: while no NO CARRIER is seen
\* and no event for a different number comes in between, the RINGs whose call
\* query reports the same incoming number (as its first incoming record) yield
\* exactly one CallEvent: the first yields the event, every later one returns
\* no event and leaves the active-call state as it is.
C4_DebounceSameCaller ==
  [][ /\ runCount' <= 1
      /\ RingStep(callOp') =>
           IF callOp'.incoming = lastEventNumber
           THEN /\ callOp'.event = "None"
                /\ UNCHANGED <<active_call_number, active_call_notified>>
           ELSE callOp'.event = callOp'.incoming
    ]_vars

\* A RING for the number of the last event, answered with no event.
C4_Witness ==
  /\ RingStep(callOp) /\ callOp.incoming = lastEventNumber
  /\ callOp.event = "None" /\ runCount = 1

\* C4 as stated: with no NO CARRIER seen, the RINGs that report one number
\* yield one CallEvent in total (here for the runs in which every event
\* carries a caller number).
C4_OneEventPerNumber ==
  callEvents["Unknown"] = 0 => \A n \in Numbers : callEvents[n] <= 1

\* C5 (call debounce, different caller): while a number is active and
\* notified, a RING whose call-status reply reports a different incoming
\* number yields the CallEvent of that number and makes it the active number
\* (here for the replies whose first incoming record carries a number).
C5_DifferentCallerReported ==
  [][ \A n \in Numbers :
        ( /\ RingStep(callOp') /\ callOp'.incoming \in Numbers
          /\ active_call_notified /\ active_call_number \in Numbers
          /\ callOp'.reported \ {active_call_number} = {n} )
        => (callOp'.event = n /\ active_call_number' = n)
    ]_vars

\* The part of C5 the code satisfies: a reply whose first incoming record
\* carries the different number.
C5_FirstRecordDifferent ==
  [][ \A n \in Numbers :
        ( /\ RingStep(callOp') /\ callOp'.incoming = n
          /\ active_call_notified /\ active_call_number # n )
        => (callOp'.event = n /\ active_call_number' = n)
    ]_vars


\* The calls process_device_sms made for the message at index i, in order.
CallsFor(log, i) == SelectSeq(log, LAMBDA e : e.idx = i)

SentOk(log, j) ==
  \E k \in 1..(j - 1) :
    log[k].ev = "send" /\ log[k].idx = log[j].idx /\ log[k].ok

\* C7: in process_device_sms a message is recorded in the persistent store,
\* and its deletion is requested, only after the sink reported successful
\* delivery of that same message; deletion is requested only when
\* delete_after_forward is set; a message whose delivery failed is neither
\* recorded nor deleted (it is still in the modem's memory).
C7_DeliveryGatesSideEffects ==
  /\ \A j \in 1..Len(fwdOp.log) :
       LET e == fwdOp.log[j] IN
         /\ e.ev \in {"log_sms", "delete"} => SentOk(fwdOp.log, j)
         /\ e.ev = "delete" => delete_after_forward
         /\ (e.ev = "send" /\ ~e.ok) =>
              CallsFor(fwdOp.log, e.idx) = << e >>
  /\ \A i \in Indices : sinkState[i] = "failed" => store[i] = "msg"

\* One message failed at the sink and kept; a later one delivered, recorded
\* and deleted.
C7_Witness ==
  /\ delete_after_forward
  /\ \E i \in Indices :
       /\ fwdOp.log = << Ev("send", i, TRUE), Ev("log_sms", i, TRUE),
                         Ev("delete", i, TRUE) >>
       /\ store[i] = "empty"
  /\ \E k \in Indices : sinkState[k] = "failed" /\ store[k] = "msg"

\* C8: after the sink failed to deliver a message that is still stored on
\* the device, a later poll that lists the message and reads it emits it and
\* hands it to the sink again (unless that poll ended on another message that
\* it handed to the sink).
C8_RetryByRedelivery ==
  [][fwdOp'.name = "process_device_sms" =>
       \A i \in fwdOp'.retryable :
         \E j \in 1..Len(fwdOp'.log) : fwdOp'.log[j].ev = "send"]_vars

\* C3: once deletion_disabled is set it is never cleared, and every
\* delete_sms request made while it is set returns failure without issuing
\* any transport operation, whatever location and folder it names.
C3_GuardMonotone ==
  [][deletion_disabled =>
       /\ deletion_disabled'
       /\ gOp'.name = "delete_sms" =>
            (~gOp'.result /\ gOp'.transport = << >>)]_vars

\* The flag was set before a delete request that names a valid location and
\* an inbox folder of a connected device; the request failed with no
\* transport operation.
C3_Witness ==
  /\ deletion_disabled
  /\ state_machine = "object"
  /\ gOp.name = "delete_sms"
  /\ gOp.disabledBefore
  /\ gOp.location \in Indices
  /\ gOp.folder \in ValidFolders
  /\ ~gOp.result
  /\ gOp.transport = << >>

\* C9: while a device's monitor thread is running, the only thread that
\* opens, or issues a command on, the device's transport is that monitor
\* thread (the main thread's periodic status update does neither).
C9_TransportExclusive ==
  transportUse.owned => transportUse.by = "monitor"

\* C10: writes to the persistent store by different monitor threads never
\* overlap: two threads are never both between the execute and the commit of
\* a log_sms / log_call on the shared connection.
C10_StoreWritesSerialized ==
  \A d1 \in dbIn, d2 \in dbIn : d1 = d2

\* C11: stop() clears the running flag first, then waits for the monitor
\* threads (each wait bounded), and only after that closes the store and the
\* transports; once begun, stop() ends whatever the monitor threads do.
C11_ShutdownOrder ==
  /\ [][/\ (mainPc' = "join" /\ mainPc # "join") =>
             (mainPc = "stop" /\ ~running')
        /\ (mainPc' = "release" /\ mainPc # "release") =>
             (mainPc = "join" /\ ~running)
        /\ ((dbOpen /\ ~dbOpen') \/
            (mainPc # "start" /\ \E d \in Devices :
                                   ser[d] = "open" /\ ser'[d] = "closed")) =>
             (mainPc = "release" /\ ~running /\ mainPc' = "stopped")]_vars
  /\ (mainPc = "stop") ~> (mainPc = "stopped")

\* stop() has ended with the store and the transports closed while a
\* monitor thread has not left its loop.
C11_Witness ==
  /\ mainPc = "stopped"
  /\ ~dbOpen
  /\ ~running
  /\ \A d \in Devices : ser[d] = "closed"
  /\ \E d \in Devices : MonitorRunning(d)

\* C12: a monitor thread leaves its loop only at the top of an iteration and
\* only when it reads the running flag there as False (inside an iteration,
\* command exchanges included, the flag is not looked at); once stop() has
\* cleared the flag every monitor thread finishes its iteration and exits.
C12_Cancellation ==
  /\ [][\A d \in Devices :
          (monPc'[d] = "exited" /\ monPc[d] # "exited") =>
            (monPc[d] = "top" /\ ~running)]_vars
  /\ (mainPc \in {"join", "release", "stopped"})
       ~> (\A d \in Devices : ~MonitorRunning(d))

\* stop() has cleared the flag and every monitor thread has left its loop.
C12_Witness ==
  /\ mainPc \in {"join", "release", "stopped"}
  /\ \A d \in Devices : monPc[d] = "exited"

\* A step in which the monitor thread of d had a command exchange fail.
FailedExchange(d) ==
  /\ transportUse' # transportUse
  /\ transportUse'.by = "monitor"
  /\ transportUse'.dev = d
  /\ transportUse'.failed

\* C13 (as stated): once a transport read or write of a device's monitor
\* thread has failed, the device is marked disconnected and the thread leaves
\* its loop: at its next loop head it does not start another iteration.
C13_TransportErrorEndsMonitor ==
  [][\A d \in Devices :
       (/\ transportUse.by = "monitor"
        /\ transportUse.dev = d
        /\ transportUse.failed
        /\ monPc[d] = "top"
        /\ monPc'[d] # monPc[d]) => monPc'[d] = "exited"]_vars

\* C13 (amended): a failed transport read or write is swallowed: the device
\* stays marked as it was, the thread goes on with its iteration, and at the
\* loop head it leaves only if the running flag is False; with the port open
\* and the flag True it starts the next iteration.
C13_TransportErrorSwallowed ==
  [][\A d \in Devices :
       /\ FailedExchange(d) =>
            (ser'[d] = ser[d] /\ monPc'[d] \in {"poll", "top"})
       /\ (/\ transportUse.by = "monitor"
           /\ transportUse.dev = d
           /\ transportUse.failed
           /\ monPc[d] = "top"
           /\ monPc'[d] # monPc[d]) =>
            monPc'[d] = (IF running THEN "check" ELSE "exited")]_vars

\* The thread of a device is in a new iteration, on the open port, right
\* after an exchange of it failed.
C13_Witness ==
  /\ running
  /\ transportUse.by = "monitor"
  /\ transportUse.failed
  /\ monPc[transportUse.dev] = "check"
  /\ ser[transportUse.dev] = "open"

\* C14 (as stated): whenever an index out of bound is observed for a device,
\* in a message read or in a delete request, deletion is disabled for the
\* device right after that operation.
C14_OutOfBoundDisables ==
  [][(gOp'.name \in {"read_sms", "delete_sms"} /\ gOp'.invalidSeen) =>
       deletion_disabled']_vars

\* C14 (amended): a read that meets a location out of bound disables
\* deletion at once; a delete request that names one, on a connected device
\* with deletion enabled, fails without a transport operation, counts one
\* delete error, and disables deletion when the count has reached
\* InvalidLocationLimit.
C14_OutOfBoundReadDisables ==
  [][/\ (gOp'.name = "read_sms" /\ gOp'.invalidSeen) => deletion_disabled'
     /\ (/\ gOp'.name = "delete_sms" /\ gOp'.invalidSeen
         /\ ~deletion_disabled /\ state_machine = "object") =>
          /\ ~gOp'.result /\ gOp'.transport = << >>
          /\ delete_errors' = delete_errors + 1
          /\ deletion_disabled' = (delete_errors' >= InvalidLocationLimit)]_vars

\* A read met a location out of bound while deletion was enabled, and
\* deletion is now disabled.
C14_Witness ==
  /\ gOp.name = "read_sms"
  /\ gOp.invalidSeen
  /\ ~gOp.disabledBefore
  /\ deletion_disabled

\* C15: after GsmErrorLimit (5) failed delete_sms requests in a row on a
\* device (delete_errors counts them: every failing path adds one, a success
\* resets it), whatever made each of them fail, deletion_disabled is set.
C15_ConsecutiveFailuresDisable ==
  (state_machine = "object" /\ delete_errors >= GsmErrorLimit) =>
    deletion_disabled

\* What read_sms returns and caches for the device as it is, and for the
\* same device with the given deletion flag, agree on every input.
ReadsAlikeWith(flag) ==
  \A b0 \in Batches(0), b2 \in Batches(2) :
    LET n == Len(b0) + Len(b2)
        r == read_sms(state_machine, legacy_processed_sms_ids,
                      deletion_disabled, TRUE, n, << b0, b2 >>)
        e == read_sms(state_machine, legacy_processed_sms_ids,
                      flag, TRUE, n, << b0, b2 >>)
    IN r.messages = e.messages /\ r.processed = e.processed

\* C16: while deletion is disabled for a device, a poll emits every readable
\* message whose key is not in the processed set, and what it emits and
\* caches is what it would with deletion enabled.
C16_ForwardingIndependent ==
  /\ [][(gOp'.name = "read_sms" /\ deletion_disabled) =>
          gOp'.offered \subseteq Range(gOp'.messages)]_vars
  /\ [](deletion_disabled => ReadsAlikeWith(FALSE))

\* A read on a device with deletion disabled emitted a message.
C16_Witness ==
  /\ gOp.name = "read_sms"
  /\ gOp.disabledBefore
  /\ gOp.offered # {}
  /\ gOp.messages # << >>

\* C17 as stated: after every read or delete request that met an index
\* below 0 or above 1000, the device's processed-id set is empty.
C17_CacheEmptyAfterInvalid ==
  [][gOp'.invalidSeen => legacy_processed_sms_ids' = {}]_vars

\* C17 (amended): a read that met an index out of bound cleared the cache at
\* that entry, so after it the cache holds only keys of messages this read
\* returned; a delete request leaves the cache as it was, whatever its index.
C17_CacheClearedInRead ==
  /\ [][(gOp'.name = "read_sms" /\ gOp'.invalidSeen) =>
          legacy_processed_sms_ids' \subseteq Range(gOp'.messages)]_vars
  /\ [][gOp'.name = "delete_sms" =>
          legacy_processed_sms_ids' = legacy_processed_sms_ids]_vars

\* A read returned a message and then met an index out of bound: the key of
\* the returned message is not cached.
C17_Witness ==
  /\ gOp.name = "read_sms" /\ gOp.invalidSeen
  /\ gOp.messages # << >>
  /\ legacy_processed_sms_ids = {}

\* C18: after delete_sms(location, folder) returns success, delete_errors
\* is 0 and the key of that (folder, location) slot is not in the device's
\* processed_sms_ids.
C18_SuccessfulDeleteForgetsKey ==
  [][(gOp'.name = "delete_sms" /\ gOp'.result) =>
       /\ delete_errors' = 0
       /\ GammuId(gOp'.folder, gOp'.location)
            \notin legacy_processed_sms_ids']_vars

\* C19: a check that sees NO CARRIER while a caller is active clears the
\* active number and the notified flag (it returns no event unless a RING in
\* the same data started a new call), and the next RING whose call query
\* names that same number as incoming yields a CallEvent for it.
C19_CallEndReturnsToIdle ==
  /\ [][(callOp'.noCarrier /\ active_call_number # "None" /\
          callOp'.event = "None") =>
            (active_call_number' = "None" /\ ~active_call_notified')]_vars
  /\ [][(callOp'.ring /\ callOp'.incoming # "None" /\
          callOp'.incoming = callOp'.endedNumber) =>
            /\ callOp'.event = callOp'.incoming
            /\ active_call_number' = callOp'.incoming
            /\ active_call_notified']_vars

\* A RING, in a later check than the one that saw the call end, names the
\* caller of the ended call and is answered with an event.
C19_Witness ==
  /\ callOp.ring /\ ~callOp.noCarrier
  /\ callOp.incoming \in Numbers
  /\ callOp.endedNumber = callOp.incoming
  /\ callOp.event = callOp.incoming

\* C20: in every operation of SMSDeviceAT a key leaves processed_sms_ids if
\* and only if the slot it names was deleted on the device by that operation.
C20_KeyRemovedIffSlotDeleted ==
  [][\A k \in processed_sms_ids :
       k \notin processed_sms_ids' <=> k \in smsOp'.deleted]_vars

\* C21: every key in processed_sms_ids names a message that was delivered to
\* the notification sink and whose slot has not been deleted.
C21_ProcessedMeansForwarded ==
  \A i \in Indices :
    SmsId("ME", i) \in processed_sms_ids =>
      (sinkState[i] = "delivered" /\ store[i] = "msg")

\* The monitor threads of a thread list that were created for device d.
ThreadsOf(threads, d) ==
  Cardinality({j \in 1..Len(threads) : threads[j] = d})

\* start() has begun monitoring: it set running and created the threads.
BegunMonitoring == mainPc \notin {"start", "returned"}

\* C22 as stated: once start() has begun monitoring there is exactly one
\* monitor thread for each configured device.
C22_OneMonitorPerConfigured ==
  BegunMonitoring => \A d \in Devices : ThreadsOf(monitor_threads, d) = 1

\* C22 (amended): start() creates exactly one monitor thread for each
\* configured device whose port it opened and none for the others; no thread
\* is created afterwards; so there are never two monitor threads for one
\* device, and a monitor runs only for a device that has its one thread.
C22_OneMonitorPerConnected ==
  /\ [][(mainPc = "start" /\ mainPc' = "loop") =>
          \A d \in Devices :
            ThreadsOf(monitor_threads', d) =
              IF ser'[d] = "open" THEN 1 ELSE 0]_vars
  /\ [][mainPc # "start" => monitor_threads' = monitor_threads]_vars
  /\ [](\A d \in Devices :
          /\ ThreadsOf(monitor_threads, d) <= 1
          /\ monPc[d] # "none" => ThreadsOf(monitor_threads, d) = 1)

\* Monitoring has begun with a thread for the first device only; the port of
\* the second, opened since by a status update, has no monitor.
C22_Witness ==
  /\ mainPc = "loop" /\ running
  /\ ThreadsOf(monitor_threads, "d1") = 1
  /\ ThreadsOf(monitor_threads, "d2") = 0
  /\ ser["d2"] = "open" /\ monPc["d2"] = "none"

\* C23: the response send_command returns holds only lines that arrived
\* after the command was written.
C23_NoStaleBytes ==
  sessOp.name = "send_command" => sessOp.stale = 0

\* A +CREG: line in the short form only.
IsShortCreg(line) == line.kind = "creg" /\ line.form = "short"

\* C27: get_network_registration on a response carrying the long form
\* returns that line's status, lac, ci and act; on a response carrying only
\* the short form, that line's status with lac, ci and act None; on a
\* response carrying neither, None.  The long form wins wherever it stands.
C27_RegistrationDuality ==
  sessOp.name = "get_network_registration" =>
    LET longs == SelectSeq(sessOp.response, MatchesCregLong)
        shorts == SelectSeq(sessOp.response, IsShortCreg)
    IN IF longs # << >>
       THEN /\ sessOp.found
            /\ sessOp.stat = {Head(longs).stat}
            /\ sessOp.lac = {Head(longs).lac}
            /\ sessOp.ci = {Head(longs).ci}
            /\ sessOp.act = {Head(longs).act}
       ELSE IF shorts # << >>
       THEN /\ sessOp.found
            /\ sessOp.stat = {Head(shorts).stat}
            /\ sessOp.lac = {} /\ sessOp.ci = {} /\ sessOp.act = {}
       ELSE ~sessOp.found

\* A response with a short line ahead of a long one was parsed to the long
\* line's fields.
C27_Witness ==
  /\ sessOp.name = "get_network_registration"
  /\ Len(sessOp.response) >= 2
  /\ IsShortCreg(sessOp.response[1])
  /\ MatchesCregLong(sessOp.response[2])
  /\ sessOp.stat = {1} /\ sessOp.lac = {1} /\ sessOp.ci = {2}
  /\ sessOp.act = {7}

\* C28: get_signal_strength returns 0 for the raw indicator 0, 100 for 31
\* and None for 99 (the indicator of the first +CSQ: line of the response).
C28_SignalEndPoints ==
  sessOp.name = "get_signal_strength" =>
    LET csq == SelectSeq(sessOp.response, MatchesCsq)
    IN csq # << >> =>
         /\ Head(csq).stat = 0 => sessOp.pct = {0}
         /\ Head(csq).stat = 31 => sessOp.pct = {100}
         /\ Head(csq).stat = 99 => (sessOp.pct = {} /\ ~sessOp.found)

\* The indicator 31 was read and 100 returned.
C28_Witness ==
  /\ sessOp.name = "get_signal_strength"
  /\ sessOp.response = << Line("csq", "full", 31, 0, 0, 0) >>
  /\ sessOp.pct = {100}

C25_DisabledLeadsToNotice == deletion_disabled ~> noticeSent

\* C25 (amended): in SMSForwarder.process_device_sms every delete request
\* that fails with deletion disabled is followed at once by a notification
\* handed to the sink, and a notification is handed over only then; a call
\* that makes no delete request hands none over, also when its read
\* disabled deletion.
C25_NoticeOnFailedDelete ==
  /\ noticeSent => deletion_disabled
  /\ gOp.name = "process_device_sms" =>
       LET log == gOp.log IN
         /\ \A j \in 1..Len(log) :
              (log[j].ev = "delete" /\ ~log[j].ok /\ log[j].disabled) =>
                (j < Len(log) /\ log[j + 1].ev = "notice")
         /\ \A j \in 1..Len(log) :
              log[j].ev = "notice" =>
                /\ j > 1
                /\ log[j - 1].ev = "delete"
                /\ ~log[j - 1].ok /\ log[j - 1].disabled
         /\ (\A j \in 1..Len(log) : log[j].ev # "delete") =>
              (\A j \in 1..Len(log) : log[j].ev # "notice")

\* Deletion was disabled by a corrupted index met in an earlier read; a later
\* call delivered a message, its delete was refused, and the operator was
\* told.
C25_Witness ==
  /\ gOp.name = "process_device_sms"
  /\ gOp.disabledBefore /\ delete_errors = 0
  /\ \E j \in 1..Len(gOp.log) : gOp.log[j].ev = "notice"
  /\ noticeSent

\* In this step the monitor thread of d begins check_incoming_call.
CallCheckBegins(d) == iteration'[d].checked /\ ~iteration[d].checked

\* In this step the monitor thread of d begins process_device_sms.
SmsPollBegins(d) == iteration'[d].polled /\ ~iteration[d].polled

\* In this step the monitor thread of d ends a loop iteration.
IterationEnds(d) ==
  monPc[d] \in {"poll", "delete"} /\ monPc'[d] \in {"top", "exited"}

\* The call check with the processing of the call, or the SMS poll with its
\* store write and delete, is under way on d.
InCallCheck(d) == monPc[d] \in {"log_call", "commit_call"}
InSmsPoll(d) == monPc[d] \in {"log_sms", "commit_sms", "delete"}

\* C26: within one device the call check and the SMS poll never run
\* concurrently: one thread at most runs them, a command of the monitor
\* thread is sent by one of the two with the other not under way, and in
\* each loop iteration the call check (with the processing of a call) is
\* complete before the SMS poll begins, and the SMS poll is complete before
\* the next call check begins.
C26_CheckThenPoll ==
  /\ [](\A d \in Devices : ThreadsOf(monitor_threads, d) <= 1)
  /\ [][\A d \in Devices :
          /\ CallCheckBegins(d) =>
               (monPc[d] = "check" /\ ~iteration[d].polled /\ ~InSmsPoll(d))
          /\ SmsPollBegins(d) =>
               (monPc[d] = "poll" /\ iteration[d].checked /\ ~InCallCheck(d))
          /\ (transportUse' # transportUse /\ transportUse'.dev = d
                /\ transportUse'.by = "monitor") =>
               (monPc[d] \in {"check", "poll", "delete"}
                 /\ (monPc[d] = "check" => CallCheckBegins(d))
                 /\ (monPc[d] = "poll" => SmsPollBegins(d)))]_vars

\* A call check found a call, the call was logged, and the SMS poll of the
\* same iteration then delivered a message and is under way.
C26_Witness ==
  \E d \in Devices :
    /\ monPc[d] = "commit_sms"
    /\ iteration[d].checked /\ iteration[d].polled

\* C30: with K = poll_interval x 10 and the device connected, every loop
\* iteration of monitor_device runs the call check, the first iteration runs
\* the SMS poll, and afterwards an iteration runs the SMS poll exactly when
\* K - 1 iterations without one have ended since the last that had one.
C30_PollSchedule ==
  [][\A d \in Devices :
       /\ SmsPollBegins(d) => iteration[d].since = PollInterval * 10 - 1
       /\ IterationEnds(d) =>
            /\ iteration'[d].checked
            /\ ~iteration'[d].polled =>
                 iteration[d].since < PollInterval * 10 - 1]_vars

\* After an iteration with an SMS poll, K - 1 iterations with a call check
\* and without an SMS poll have ended: the next one is due to poll.
C30_Witness ==
  \E d \in Devices :
    /\ monPc[d] = "top"
    /\ iteration[d].checked /\ ~iteration[d].polled
    /\ iteration[d].since = PollInterval * 10 - 1
    /\ sms_check_counter[d] = 0

\* C29 (complete poll): in a single read_all_sms poll every index of the
\* listing whose key is not in processed_sms_ids is single-read, and every
\* one whose read returns a non-empty text is returned by that poll.  Stated
\* for the (arbitrary) tracked key.
C29_CompletePoll ==
  [][ (smsOp'.name = "read_all_sms") =>
        /\ (smsOp'.tListed /\ tracked \notin processed_sms_ids)
             => smsOp'.tRead
        /\ (smsOp'.tListed /\ tracked \notin processed_sms_ids
              /\ smsOp'.tReply = "text")
             => tracked \in Range(smsOp'.messages)
    ]_vars

\* C31 as stated: check_incoming_call emits a CallEvent only for an incoming
\* record that carries a caller number; when the first incoming record of the
\* reply has none (and no NO CARRIER was drained) there is no event and the
\* active-call state stays as it was.
C31_NumberRequired ==
  [][ (callOp'.name = "check_incoming_call") =>
        /\ callOp'.event # "None" => callOp'.event \in Numbers
        /\ (callOp'.ring /\ callOp'.incoming = "Unknown" /\ ~callOp'.noCarrier)
             => /\ callOp'.event = "None"
                /\ active_call_number' = active_call_number
                /\ active_call_notified' = active_call_notified
    ]_vars

\* C31 (amended): check_incoming_call emits a CallEvent, and leaves Idle,
\* only for the first incoming record of the reply to AT+CLCC; a record
\* without a number is reported as a call from 'Unknown', which becomes the
\* active number, unless 'Unknown' is already the active notified caller.
C31_UnknownCallerReported ==
  [][ (callOp'.name = "check_incoming_call") =>
        /\ callOp'.event # "None" =>
             /\ callOp'.ring /\ callOp'.incoming = callOp'.event
             /\ active_call_number' = callOp'.event
             /\ active_call_notified'
        /\ (active_call_number = "None" /\ active_call_number' # "None")
             => callOp'.event = active_call_number'
        /\ (callOp'.ring /\ callOp'.incoming = "Unknown") =>
             IF ~callOp'.noCarrier /\ active_call_number = "Unknown"
                /\ active_call_notified
             THEN /\ callOp'.event = "None"
                  /\ active_call_number' = active_call_number
                  /\ active_call_notified' = active_call_notified
             ELSE /\ callOp'.event = "Unknown"
                  /\ active_call_number' = "Unknown"
                  /\ active_call_notified'
    ]_vars

\* A RING whose first incoming record carried no number was reported as a
\* call from 'Unknown'.
C31_Witness ==
  /\ callOp.name = "check_incoming_call"
  /\ callOp.ring /\ callOp.incoming = "Unknown"
  /\ callOp.event = "Unknown"
  /\ active_call_number = "Unknown" /\ active_call_notified

\* C32: check_incoming_call returns a CallEvent only for an incoming record
\* of the reply, and a reply without an incoming record (outgoing records
\* and other lines only) yields no event and changes the active-call state
\* no more than the drained data without the reply does.
C32_OnlyIncomingSurfaced ==
  [][ (callOp'.name = "check_incoming_call") =>
        /\ callOp'.event # "None" =>
             (callOp'.incoming # "None" /\ callOp'.event = callOp'.incoming)
        /\ (callOp'.ring /\ callOp'.incoming = "None") =>
             /\ callOp'.event = "None"
             /\ active_call_number' =
                  IF callOp'.noCarrier THEN "None" ELSE active_call_number
             /\ active_call_notified' =
                  (~callOp'.noCarrier /\ active_call_notified)
    ]_vars

\* A RING whose reply held an outgoing record with a number and no incoming
\* record: no event, and the active call of another caller is still active.
C32_Witness ==
  /\ callOp.name = "check_incoming_call"
  /\ callOp.ring /\ callOp.incoming = "None"
  /\ "A" \in callOp.outgoing
  /\ callOp.event = "None"
  /\ active_call_number = "B" /\ active_call_notified

\* C33: delete_sms_at with an index below 0 or above 1000 returns failure,
\* writes no command to the transport and leaves processed_sms_ids as it
\* was.
C33_OutOfBoundDeleteNotSent ==
  [][ (smsOp'.name = "delete_sms_at"
        /\ (smsOp'.location < 0 \/ smsOp'.location > 1000)) =>
        /\ ~smsOp'.result
        /\ smsOp'.wire = << >>
        /\ processed_sms_ids' = processed_sms_ids
    ]_vars

\* A delete of index 1001 was refused with keys in the cache.
C33_Witness ==
  /\ smsOp.name = "delete_sms_at"
  /\ smsOp.location = 1001
  /\ ~smsOp.result /\ smsOp.wire = << >>
  /\ processed_sms_ids # {}

\* C38: when delete_sms_at returns failure (out-of-bound index, bank
\* selection failed, delete command not acknowledged, transport error)
\* processed_sms_ids is exactly what it was before the call.
C38_FailedDeleteKeepsCache ==
  [][ (smsOp'.name = "delete_sms_at" /\ ~smsOp'.result) =>
        processed_sms_ids' = processed_sms_ids
    ]_vars

\* AT+CMGD was written for a key of the cache and not acknowledged: the
\* delete failed and the key is still in the cache.
C38_Witness ==
  /\ smsOp.name = "delete_sms_at" /\ ~smsOp.result
  /\ Len(smsOp.wire) = 2
  /\ SmsId(smsOp.memory, smsOp.location) \in processed_sms_ids

\* C34: whenever get_signal_strength returns a number it lies in 0..100; a
\* raw indicator that does not scale into 0..100 gives None.
C34_PercentageInRange ==
  sessOp.name = "get_signal_strength" =>
    \A v \in sessOp.pct : 0 <= v /\ v <= 100

\* C35: a delete writes AT+CMGD only when the modem answered the AT+CPMS
\* just before it with OK; when the selection failed no AT+CMGD is written
\* and the delete returns failure.
C35_BankSelectedBeforeDelete ==
  sessOp.name = "delete" =>
    /\ (\E j \in 1..Len(sessOp.written) :
          sessOp.written[j].cmd \in {"CMGD", "CMGD_READ"})
         => sessOp.selected
    /\ ~sessOp.selected => ~sessOp.found

\* C36: no SMS poll and no call-detail query reads a RING or a NO CARRIER
\* away: every marker the modem writes is left for check_incoming_call to
\* see.
C36_MarkersNotLost ==
  sessOp.name \in {"read_all_sms", "check_incoming_call"} => sessOp.lost = {}

\* C40: active_call_notified is true exactly when active_call_number is
\* set.
C40_ActiveCallConsistent ==
  active_call_notified <=> (active_call_number # "None")

\* A call that was reported has been seen to end: number and flag were set
\* together and are cleared together.
C40_Witness ==
  /\ callOp.name = "check_incoming_call"
  /\ callOp.noCarrier /\ ~callOp.ring
  /\ callOp.endedNumber # "None"
  /\ active_call_number = "None" /\ ~active_call_notified

\* C37: once stop() has closed the store and the ports, no monitor thread
\* writes to or reads from a transport.
C37_NoUseAfterRelease ==
  transportUse.by = "monitor" => ~transportUse.released

\* C39: one read_sms makes at most max_attempts (50) GetNextSMS requests
\* for each of the two inbox folders, whatever the device gives.
C39_BoundedReadLoop ==
  gOp.name = "read_sms" =>
    /\ Len(gOp.requests) <= Len(InboxFolders)
    /\ \A f \in 1..Len(gOp.requests) : gOp.requests[f] <= max_attempts

\* A read whose loop was ended by the bound: the device kept giving a
\* corrupted location.
C39_Witness ==
  /\ gOp.name = "read_sms"
  /\ gOp.invalidSeen
  /\ \E f \in 1..Len(gOp.requests) : gOp.requests[f] = max_attempts

====
